---------------------------- MODULE Spec2Model ----------------------------
(***************************************************************************)
(* Post-to-audio pipeline: the orchestrator (processPostToAudio), the      *)
(* store it writes to (selected_posts, audio_files, the audio bucket), the *)
(* post analyzer that selects the best post, and the TTS service's         *)
(* failover over its providers.                                            *)
(*                                                                         *)
(* Each orchestrator run is a sequence of awaits; every action below is    *)
(* the code from one await to the next, so concurrent runs interleave      *)
(* exactly at the suspension points of the source.                         *)
(***************************************************************************)
EXTENDS Integers, Sequences, FiniteSets, TLC

(***************************************************************************)
(* Bounds of the model.                                                    *)
(***************************************************************************)
NumRuns == 2        \* concurrent calls of processPostToAudio
MaxBatch == 2       \* longest input batch
MaxWords == 850     \* word counts given to calculateTextLengthScore
NumCalls == 2       \* generateAudio calls made on one constructed service
NumCallers == 2     \* concurrent callers of the Reddit services

Runs == 1..NumRuns
Calls == 1..NumCalls
Callers == 1..NumCallers

(***************************************************************************)
(* Optional values (null | T) are sequences of length 0 or 1.              *)
(***************************************************************************)
None == <<>>
Some(x) == <<x>>

NULL_ID == 0        \* audio_file_id NULL

(***************************************************************************)
(* Candidate posts.  The text of a post (title + ' ' + selftext) is        *)
(* represented by what the analyzer reads from it: its word count, whether *)
(* the selftext is mostly one URL, the number of its paragraphs and of its *)
(* sentences, whether more than 0.3 of its characters are capitals, and    *)
(* the number of URLs in it.  Times are Unix seconds.                      *)
(***************************************************************************)
Text(words, linkOnly, paragraphs, sentences, capsHeavy, urls) ==
  [words |-> words, linkOnly |-> linkOnly, paragraphs |-> paragraphs,
   sentences |-> sentences, capsHeavy |-> capsHeavy, urls |-> urls]

RedditPost(id, text, score, num_comments, created_utc) ==
  [id |-> id, text |-> text, score |-> score, num_comments |-> num_comments,
   created_utc |-> created_utc]

\* Date.now() / 1000 at the calls of selectBestPost
Clocks == {7200, 10800}

\* a well-structured post of ideal length, heavily upvoted
PostA == RedditPost("a", Text(120, FALSE, 2, 3, FALSE, 0), 9999, 0, 3600)
\* a short post nobody voted on
PostB == RedditPost("b", Text(15, FALSE, 1, 1, FALSE, 0), 0, 0, 3600)
\* a heavily upvoted post whose selftext is one URL
PostC == RedditPost("c", Text(12, TRUE, 1, 1, FALSE, 1), 9999, 0, 3600)
\* a post whose engagement decays between the two clocks
PostD == RedditPost("d", Text(60, FALSE, 1, 3, FALSE, 0), 195, 10, 3600)
\* good text, voted down
PostE == RedditPost("e", Text(120, FALSE, 2, 3, FALSE, 0), -5, 0, 3600)
\* voted down by one
PostF == RedditPost("f", Text(60, FALSE, 1, 3, FALSE, 0), -1, 0, 3600)
\* another post that scores as PostD does
PostG == RedditPost("g", Text(60, FALSE, 1, 3, FALSE, 0), 195, 10, 3600)
\* too long, shouting, full of links, and dated in the future
PostH == RedditPost("h", Text(900, FALSE, 3, 9, TRUE, 3), 9, 0, 99999)

\* the posts the runs of the orchestrator are given
Catalogue == {PostA, PostB, PostC}

\* the posts the analyzer is given when called on its own
AnalyzerPosts == {PostA, PostB, PostC, PostD, PostE, PostF, PostG, PostH}

RECURSIVE SeqsUpTo(_, _)
SeqsUpTo(S, n) ==
  IF n = 0 THEN {<<>>}
  ELSE LET shorter == SeqsUpTo(S, n - 1)
       IN  shorter \cup {Append(s, x) : s \in {t \in shorter : Len(t) = n - 1}, x \in S}

\* the argument of processPostToAudio: missing (null/undefined) or an array
Batches ==
  {[missing |-> TRUE, items |-> <<>>]}
    \cup {[missing |-> FALSE, items |-> s] : s \in SeqsUpTo(Catalogue, MaxBatch)}

(***************************************************************************)
(* Post analyzer.  Scores are in thousandths, hours and engagement in      *)
(* tenths.  NaN and NegInfinity stand for the two non-finite numbers the   *)
(* arithmetic of the analyzer can produce.                                 *)
(***************************************************************************)
TextMin == 50
TextIdealMin == 100
TextIdealMax == 500
TextMax == 800
MinUsableWords == 10

NaN == -9000000
NegInfinity == -8000000

Max(a, b) == IF a >= b THEN a ELSE b
Min(a, b) == IF a =< b THEN a ELSE b

\* getPostAgeHours, in tenths of an hour: at least 0.1
getPostAgeHours(created_utc, now) == Max((now - created_utc) \div 360, 1)

\* Math.log10 of x10 / 10, in thousandths: NaN below zero, -Infinity at
\* zero, and rounded to the thousandth at the arguments the posts produce
Log10Table ==
  [x10 \in {5, 10, 20, 100, 910, 1000, 1990, 5000} |->
     CASE x10 = 5    -> -301
       [] x10 = 10   -> 0
       [] x10 = 20   -> 301
       [] x10 = 100  -> 1000
       [] x10 = 910  -> 1959
       [] x10 = 1000 -> 2000
       [] x10 = 1990 -> 2299
       [] x10 = 5000 -> 2699]

RECURSIVE log10(_)
log10(x10) ==
  IF x10 < 0 THEN NaN
  ELSE IF x10 = 0 THEN NegInfinity
  ELSE IF x10 >= 10000 THEN 1000 + log10(x10 \div 10)
  ELSE Log10Table[x10]

\* Math.min(Math.log10(rawEngagement + 1) / 3, 1)
calculateEngagementScore(post, now) ==
  LET ageHours == getPostAgeHours(post.created_utc, now)
      rawEngagement == ((post.score * 10 + post.num_comments * 3) * 10) \div ageHours
      log == log10(rawEngagement + 10)
  IN  IF log = NaN THEN NaN
      ELSE IF log = NegInfinity THEN NegInfinity
      ELSE Min(log \div 3, 1000)

\* the branches of calculateTextLengthScore
\* wordCount / min * 0.3
tooShortScore(wordCount) == (wordCount * 300) \div TextMin

\* mutant: the rise to the ideal range starts from no score at all
risingScoreFromZero(wordCount) == (wordCount * 1000) \div TextIdealMin

\* 0.3 + (position / range) * 0.7
risingScore(wordCount) ==
  300 + ((wordCount - TextMin) * 700) \div (TextIdealMin - TextMin)

\* 1.0 - (position / range) * 0.5
fallingScore(wordCount) ==
  1000 - ((wordCount - TextIdealMax) * 500) \div (TextMax - TextIdealMax)

calculateTextLengthScore(wordCount) ==
  IF wordCount = 0 THEN 0
  ELSE IF wordCount < TextMin THEN tooShortScore(wordCount)
  ELSE IF wordCount >= TextIdealMin /\ wordCount =< TextIdealMax THEN 1000
  ELSE IF wordCount < TextIdealMin THEN risingScore(wordCount)
  ELSE IF wordCount =< TextMax THEN fallingScore(wordCount)
  ELSE 300

calculateContentQuality(text) ==
  IF text.words = 0 THEN 0
  ELSE LET score == 500
                    + (IF text.paragraphs > 1 THEN 200 ELSE 0)
                    + (IF text.sentences > 2 THEN 150 ELSE 0)
                    - (IF text.capsHeavy THEN 200 ELSE 0)
                    - (IF text.urls > 2 THEN 150 ELSE 0)
       IN  Max(0, IF score < 1000 THEN score ELSE 1000)

\* mutant: every post passes the filter
hasUsableTextContentAlways(post) == TRUE

hasUsableTextContent(post) ==
  IF post.text.words < MinUsableWords THEN FALSE
  ELSE IF post.text.linkOnly THEN FALSE
  ELSE TRUE

scorePost(post, now) ==
  LET engagementScore == calculateEngagementScore(post, now)
      textLengthScore == calculateTextLengthScore(post.text.words)
      contentQualityScore == calculateContentQuality(post.text)
  IN  [post |-> post,
       engagementScore |-> engagementScore,
       textLength |-> post.text.words,
       contentQuality |-> contentQualityScore,
       totalScore |-> IF engagementScore = NaN THEN NaN
                      ELSE IF engagementScore = NegInfinity THEN NegInfinity
                      ELSE (engagementScore * 4 + textLengthScore * 3
                            + contentQualityScore * 3) \div 10]

\* (a, b) => b.totalScore - a.totalScore as sort reads it: its sign, and 0
\* when it is NaN (one of the scores is NaN, or both are -Infinity)
comparefn(a, b) ==
  IF a.totalScore = NaN \/ b.totalScore = NaN THEN 0
  ELSE IF b.totalScore > a.totalScore THEN 1
  ELSE IF b.totalScore < a.totalScore THEN -1
  ELSE 0

\* Array.prototype.sort with a consistent comparator: a stable sort
RECURSIVE InsertDesc(_, _)
InsertDesc(sorted, x) ==
  IF sorted = <<>> THEN <<x>>
  ELSE IF comparefn(Head(sorted), x) =< 0
    THEN <<Head(sorted)>> \o InsertDesc(Tail(sorted), x)
  ELSE <<x>> \o sorted

RECURSIVE SortDesc(_)
SortDesc(s) ==
  IF s = <<>> THEN <<>>
  ELSE InsertDesc(SortDesc(SubSeq(s, 1, Len(s) - 1)), s[Len(s)])

\* comparefn is a consistent comparator for the elements of s: "equal",
\* "before" and "after" are each transitive among them.  They are when no
\* score is NaN, the comparator being then the order of the scores.
ConsistentComparator(s) ==
  (\E n \in 1..Len(s) : s[n].totalScore = NaN)
    => \A i, j, k \in 1..Len(s) :
         \A sign \in {-1, 0, 1} :
           (comparefn(s[i], s[j]) = sign /\ comparefn(s[j], s[k]) = sign)
             => comparefn(s[i], s[k]) = sign

\* the arrays scoredPosts.sort(...) may leave: the stably sorted one, or,
\* when comparefn is not consistent (a NaN score among different scores),
\* an order the engine defines, which is any order of the elements
sort(s) ==
  IF ConsistentComparator(s) THEN {SortDesc(s)}
  ELSE {[n \in 1..Len(s) |-> s[p[n]]] :
          p \in {q \in [1..Len(s) -> 1..Len(s)] :
                   \A m, n \in 1..Len(s) : q[m] = q[n] => m = n}}

\* the values selectBestPost(items) may return when Date.now() / 1000 is now
selectBestPost(items, now) ==
  IF Len(items) = 0 THEN {None}
  ELSE LET usablePosts == SelectSeq(items, hasUsableTextContent)
       IN  IF Len(usablePosts) = 0 THEN {None}
           ELSE LET scoredPosts ==
                      [i \in 1..Len(usablePosts) |-> scorePost(usablePosts[i], now)]
                IN  {Some(sorted[1]) : sorted \in sort(scoredPosts)}


(***************************************************************************)
(* TTS service: retry on one provider, failover to the next                *)
(***************************************************************************)
\* mutant: one attempt more than configured
MaxAttemptsOneMore == 3 + 1

MaxAttempts == 3
InitialDelayMs == 1000
MaxDelayMs == 5000
BackoffMultiplier == 2

\* this.providers after initializeProviders with both providers configured
providers == <<"elevenlabs", "inworld">>

\* what one attempt on a provider meets: isAvailable() false, generateSpeech
\* returning audio, or generateSpeech throwing a provider error with a status
AttemptOutcomes == {"ok", "unavailable", "401", "403", "429", "500"}

RECURSIVE Pow(_, _)
Pow(b, e) == IF e = 0 THEN 1 ELSE b * Pow(b, e - 1)

\* mutant: the exponent is the attempt number itself
waitWithBackoffNextExponent(attempt) ==
  Min(InitialDelayMs * Pow(BackoffMultiplier, attempt), MaxDelayMs)

\* the delay waitWithBackoff(attempt) sleeps
waitWithBackoff(attempt) ==
  Min(InitialDelayMs * Pow(BackoffMultiplier, attempt - 1), MaxDelayMs)

\* mutant: no status is taken for an authentication error
authErrorNever(out) == FALSE

\* mutant: every provider error is re-thrown at once
authErrorEvery(out) == TRUE

\* error.statusCode === 401 || error.statusCode === 403
authError(out) == out \in {"401", "403"}

\* mutant: a rate-limit answer is handled as any other failure
rateLimitedNever(out) == FALSE

\* error.statusCode === 429
rateLimited(out) == out = "429"

\* what generateWithRetry does on the way, in order: the isAvailable probes
\* (status "true"/"false"), the generateSpeech calls (status "ok" or the
\* status of the error thrown) and the backoff waits (delay in ms)
Probe(attempt, available) ==
  [kind |-> "probe", attempt |-> attempt,
   status |-> IF available THEN "true" ELSE "false", delay |-> 0]
Synth(attempt, out) == [kind |-> "synth", attempt |-> attempt, status |-> out, delay |-> 0]
Wait(attempt, ms) == [kind |-> "wait", attempt |-> attempt, status |-> "", delay |-> ms]

\* mutant: the answer of isAvailable is not looked at
notAvailableIgnored(out) == FALSE

\* if (!isAvailable) throw new Error(...), before generateSpeech is called
notAvailable(out) == out = "unavailable"

\* the for loop of generateWithRetry from `attempt` on; script[k] is what
\* attempt k meets.  The result carries what was done on the way: the
\* isAvailable probes, the generateSpeech calls and the backoff waits.
RECURSIVE retryLoop(_, _, _, _)
retryLoop(script, attempt, lastError, done) ==
  IF attempt > MaxAttempts
    THEN [ok |-> FALSE, error |-> lastError, probes |-> done.probes,
          synth |-> done.synth, waits |-> done.waits, events |-> done.events]
  ELSE
    LET out == script[attempt]
        probed == [done EXCEPT !.probes = @ + 1,
                               !.events = Append(@, Probe(attempt, out # "unavailable"))]
        called == [probed EXCEPT !.synth = @ + 1,
                                 !.events = Append(@, Synth(attempt, out))]
        waited(d, ms) == [d EXCEPT !.waits = Append(@, ms),
                                   !.events = Append(@, Wait(attempt, ms))]
    IN  IF notAvailable(out)
          THEN \* plain Error: not a provider error, the standard wait
               retryLoop(script, attempt + 1, out,
                  IF attempt < MaxAttempts
                    THEN waited(probed, waitWithBackoff(attempt))
                    ELSE probed)
        ELSE IF out = "ok"
          THEN [ok |-> TRUE, error |-> "", probes |-> called.probes,
                synth |-> called.synth, waits |-> called.waits, events |-> called.events]
        ELSE IF authError(out)
          THEN [ok |-> FALSE, error |-> out, probes |-> called.probes,
                synth |-> called.synth, waits |-> called.waits, events |-> called.events]
        ELSE IF rateLimited(out) /\ attempt < MaxAttempts
          THEN retryLoop(script, attempt + 1, out,
                  waited(called, waitWithBackoff(attempt + 1)))
        ELSE retryLoop(script, attempt + 1, out,
                  IF attempt < MaxAttempts
                    THEN waited(called, waitWithBackoff(attempt))
                    ELSE called)

generateWithRetry(script) ==
  retryLoop(script, 1, "", [probes |-> 0, synth |-> 0, waits |-> <<>>, events |-> <<>>])

voiceOf(name) ==
  IF name = "elevenlabs" THEN "voiceId"
  ELSE IF name = "inworld" THEN "character"
  ELSE "unknown"

\* mutant: the error of the first provider that failed is kept
providerCatchKeepFirst(lastError, error) == IF lastError = "" THEN error ELSE lastError

\* the catch of generateAudio: lastError becomes the error just caught
providerCatch(lastError, error) == error

\* the for loop of generateAudio from provider i on; oracle[i] is the script
\* provider i follows during this call
RECURSIVE failoverLoop(_, _, _, _)
failoverLoop(oracle, i, lastError, tried) ==
  IF i > Len(providers)
    THEN [ok |-> FALSE, provider |-> "", voice |-> "",
          code |-> "ALL_PROVIDERS_FAILED", lastError |-> lastError, tried |-> tried]
  ELSE
    LET res == generateWithRetry(oracle[i])
    IN  IF res.ok
          THEN [ok |-> TRUE, provider |-> providers[i], voice |-> voiceOf(providers[i]),
                code |-> "", lastError |-> lastError, tried |-> Append(tried, res)]
          ELSE failoverLoop(oracle, i + 1, providerCatch(lastError, res.error),
                            Append(tried, res))

\* mutant: the loop over the providers starts at the second one
generateAudioFromSecond(oracle) == failoverLoop(oracle, 2, "", <<>>)

generateAudio(oracle) == failoverLoop(oracle, 1, "", <<>>)

\* provider behaviours the orchestrator's runs are exercised with: for each
\* provider of the list, what its attempts meet during one generateAudio call
Oracles ==
  { << <<"ok", "ok", "ok">>,           <<"ok", "ok", "ok">> >>,
    << <<"500", "429", "ok">>,         <<"ok", "ok", "ok">> >>,
    << <<"401", "ok", "ok">>,          <<"unavailable", "ok", "ok">> >>,
    << <<"unavailable", "429", "500">>, <<"500", "500", "ok">> >>,
    << <<"429", "500", "500">>,        <<"403", "ok", "ok">> >>,
    << <<"unavailable", "unavailable", "unavailable">>, <<"500", "429", "500">> >> }

(***************************************************************************)
(* Store.  selected_posts and audio_files are the tables of the migration, *)
(* bucket the names of the objects in the audio_files storage bucket.      *)
(***************************************************************************)
VARIABLES
  selected_posts,   \* rows [id, reddit_post_id, selection_score, audio_file_id]
  audio_files,      \* rows [id, file_url, tts_provider, voice_used]
  bucket,           \* object names in the bucket
  pc,               \* per run: the call it is suspended in, or its terminal state
  bestPost,         \* per run: PostScore selected (optional)
  savedPost,        \* per run: SelectedPost row held (optional)
  audioResult,      \* per run: result of generateAudio (optional)
  fileName,         \* per run: generated audio file name (optional)
  uploadResult,     \* per run: result of uploadAudioFile (optional)
  audioFile,        \* per run: AudioFile row saved (optional)
  error,            \* per run: the OrchestrationError thrown (optional)
  result,           \* per run: the PostToAudioResult returned (optional)
  calls,            \* per run: the calls made so far, each with its outcome
  tts,              \* the generateAudio call made on the TTS service alone (optional)
  service,          \* the TTSService constructed on its own (optional)
  probe,            \* per provider: where its getProvidersStatus callback is
  settled,          \* the providers in the order their callbacks settled
  status,           \* what getProvidersStatus resolved with (optional)
  selections,       \* the selectBestPost calls made on the analyzer alone
  lengthScore,      \* a calculateTextLengthScore call and its value (optional)
  generating,       \* per call: a generateAudio call made on the constructed service
  clock,            \* Date.now() as the Reddit services read it, in ms
  requests,         \* RateLimiter.requests: the times recorded
  issued,           \* the times at which a request to the Reddit API was sent
  cachedToken,      \* RedditAuthService.cachedToken (optional)
  client            \* per caller: where its makeRequest or getAccessToken call is

storeVars == <<selected_posts, audio_files, bucket>>
runVars == <<pc, bestPost, savedPost, audioResult, fileName, uploadResult,
             audioFile, error, result, calls>>
vars == <<selected_posts, audio_files, bucket, pc, bestPost, savedPost,
          audioResult, fileName, uploadResult, audioFile, error, result, calls, tts,
          service, probe, settled, status, selections, lengthScore, generating,
          clock, requests, issued, cachedToken, client>>
\* the state of a TTSService whose providers are asked for their status
statusVars == <<service, probe, settled, status>>
\* the state of the services called on their own, outside of any run
aloneVars == <<tts, service, probe, settled, status, selections, lengthScore,
               generating, clock, requests, issued, cachedToken, client>>
\* the state of the analyzer called on its own
analyzerVars == <<selections, lengthScore>>
\* the state of the Reddit client and of the Reddit authentication service
redditVars == <<clock, requests, issued, cachedToken, client>>

\* gen_random_uuid(): a fresh id.  A run inserts at most one row into each
\* table, so the run's number is a fresh id for the row it inserts.
gen_random_uuid(r) == r

\* mutant: the column is not declared UNIQUE
UniqueViolationNoConstraint(redditPostId) == FALSE

\* reddit_post_id TEXT UNIQUE: the insert is rejected (SQLSTATE 23505) when a
\* row with that reddit_post_id exists
UniqueViolation(redditPostId) ==
  \E row \in selected_posts : row.reddit_post_id = redditPostId

\* getPublicUrl(path)
getPublicUrl(path) == <<"url", path>>

\* Date.now() as read by run r.  Only whether two stamps are equal matters
\* (equal names collide in the bucket); stamps drawn from 1..r realise every
\* pattern of equal and distinct stamps among the runs.
Timestamps(r) == 1..r

\* `${postId}_${provider}_${timestamp}.mp3`
generateAudioFileName(postId, provider, timestamp) == <<postId, provider, timestamp>>


(***************************************************************************)
(* Errors: [name, code, cause]; cause is the code of the error wrapped     *)
(* ("" when there is none).                                                *)
(***************************************************************************)
StorageError(code) == [name |-> "StorageError", code |-> code, cause |-> ""]
TTSServiceError(code) == [name |-> "TTSServiceError", code |-> code, cause |-> ""]
OrchestrationError(code, cause) ==
  [name |-> "OrchestrationError", code |-> code, cause |-> cause]

\* mutant: the codes of the last two steps are exchanged
StepFailureCodeExchanged(step) ==
  CASE step = "validate" -> "EMPTY_POSTS_ARRAY"
    [] step = "selectBestPost" -> "NO_VALID_POSTS"
    [] step = "saveSelectedPost" -> "POST_SAVE_FAILED"
    [] step = "generateAudio" -> "TTS_FAILED"
    [] step = "uploadAudioFile" -> "UPLOAD_FAILED"
    [] step = "saveAudioFile" -> "LINK_FAILED"
    [] step = "linkAudioToPost" -> "METADATA_SAVE_FAILED"

\* mutant: a failed link is reported as a failed upload
StepFailureCodeLinkAsUpload(step) ==
  CASE step = "validate" -> "EMPTY_POSTS_ARRAY"
    [] step = "selectBestPost" -> "NO_VALID_POSTS"
    [] step = "saveSelectedPost" -> "POST_SAVE_FAILED"
    [] step = "generateAudio" -> "TTS_FAILED"
    [] step = "uploadAudioFile" -> "UPLOAD_FAILED"
    [] step = "saveAudioFile" -> "METADATA_SAVE_FAILED"
    [] step = "linkAudioToPost" -> "UPLOAD_FAILED"

\* the code each step's failure is thrown with
StepFailureCode(step) ==
  CASE step = "validate" -> "EMPTY_POSTS_ARRAY"
    [] step = "selectBestPost" -> "NO_VALID_POSTS"
    [] step = "saveSelectedPost" -> "POST_SAVE_FAILED"
    [] step = "generateAudio" -> "TTS_FAILED"
    [] step = "uploadAudioFile" -> "UPLOAD_FAILED"
    [] step = "saveAudioFile" -> "METADATA_SAVE_FAILED"
    [] step = "linkAudioToPost" -> "LINK_FAILED"

\* mutant: the outer catch re-throws whatever it caught
outerCatchRethrow(e) == e

\* the catch of the outer try: orchestration errors are re-thrown, anything
\* else is wrapped
outerCatch(e) ==
  IF e.name = "OrchestrationError" THEN e
  ELSE OrchestrationError("UNEXPECTED_ERROR", e.code)

\* mutant: only a missing argument is rejected
EmptyInputMissingOnly(batch) == batch.missing

\* if (!posts || posts.length === 0)
EmptyInput(batch) == batch.missing \/ Len(batch.items) = 0

\* mutant: an existing record is reused whether or not it is linked
onDuplicateReuseLinked(existingPost, dup) ==
  IF existingPost = None
    THEN [throw |-> TRUE, savedPost |-> None,
          error |-> OrchestrationError("POST_SAVE_FAILED", dup.code)]
  ELSE [throw |-> FALSE, savedPost |-> existingPost,
        error |-> OrchestrationError("", "")]

\* mutant: an existing record is never reused
onDuplicateRejectUnlinked(existingPost, dup) ==
  IF existingPost = None
    THEN [throw |-> TRUE, savedPost |-> None,
          error |-> OrchestrationError("POST_SAVE_FAILED", dup.code)]
  ELSE [throw |-> TRUE, savedPost |-> None,
        error |-> OrchestrationError("POST_ALREADY_PROCESSED", dup.code)]

\* mutant: a record that cannot be retrieved has a code of its own
onDuplicateOwnCode(existingPost, dup) ==
  IF existingPost = None
    THEN [throw |-> TRUE, savedPost |-> None,
          error |-> OrchestrationError("POST_NOT_RETRIEVED", dup.code)]
  ELSE IF existingPost[1].audio_file_id # NULL_ID
    THEN [throw |-> TRUE, savedPost |-> None,
          error |-> OrchestrationError("POST_ALREADY_PROCESSED", dup.code)]
  ELSE [throw |-> FALSE, savedPost |-> existingPost,
        error |-> OrchestrationError("", "")]

\* the DUPLICATE_POST branch once the lookup has returned existingPost
onDuplicate(existingPost, dup) ==
  IF existingPost = None
    THEN [throw |-> TRUE, savedPost |-> None,
          error |-> OrchestrationError("POST_SAVE_FAILED", dup.code)]
  ELSE IF existingPost[1].audio_file_id # NULL_ID
    THEN [throw |-> TRUE, savedPost |-> None,
          error |-> OrchestrationError("POST_ALREADY_PROCESSED", dup.code)]
  ELSE [throw |-> FALSE, savedPost |-> existingPost,
        error |-> OrchestrationError("", "")]

Invoke(log, op) == Append(log, [op |-> op, res |-> "pending"])
Return(log, res) == [log EXCEPT ![Len(log)].res = res]

\* mutant: the throw does not end the run
ThrowStuck(r, e) ==
  /\ pc' = pc
  /\ error' = [error EXCEPT ![r] = Some(outerCatch(e))]

\* mutant: a run whose step failed is started again
ThrowAndRestart(r, e) ==
  /\ pc' = [pc EXCEPT ![r] = "idle"]
  /\ error' = [error EXCEPT ![r] = Some(outerCatch(e))]

\* the run ends by throwing e (from inside the outer try)
Throw(r, e) ==
  /\ pc' = [pc EXCEPT ![r] = "Failed"]
  /\ error' = [error EXCEPT ![r] = Some(outerCatch(e))]

\* the locals of the steps after the persist step, gone when the run ends
Forget(r) ==
  /\ audioResult' = [audioResult EXCEPT ![r] = None]
  /\ fileName' = [fileName EXCEPT ![r] = None]
  /\ uploadResult' = [uploadResult EXCEPT ![r] = None]
  /\ audioFile' = [audioFile EXCEPT ![r] = None]

\* a caller of the Reddit services that has not called yet: pc is where its
\* call is, entry the function it called, fetched whether its call requested
\* a token, sent whether it sent a request to the API, token the access token
\* it obtained, error and status what it threw
Idle ==
  [pc |-> "idle", entry |-> "", fetched |-> FALSE, sent |-> FALSE,
   token |-> None, error |-> "", status |-> 0]

\* the orchestrator, the store and the services other than Reddit's, as
\* their construction leaves them
AsConstructed ==
  /\ selected_posts = {}
  /\ audio_files = {}
  /\ bucket = {}
  /\ pc = [r \in Runs |-> "idle"]
  /\ bestPost = [r \in Runs |-> None]
  /\ savedPost = [r \in Runs |-> None]
  /\ audioResult = [r \in Runs |-> None]
  /\ fileName = [r \in Runs |-> None]
  /\ uploadResult = [r \in Runs |-> None]
  /\ audioFile = [r \in Runs |-> None]
  /\ error = [r \in Runs |-> None]
  /\ result = [r \in Runs |-> None]
  /\ calls = [r \in Runs |-> <<>>]
  /\ tts = None
  /\ service = None
  /\ probe = <<>>
  /\ settled = <<>>
  /\ status = None
  /\ selections = <<>>
  /\ lengthScore = None
  /\ generating = [c \in Calls |-> None]
  /\ client = [c \in Callers |-> Idle]

Init ==
  /\ AsConstructed
  /\ clock = 0
  /\ requests = <<>>
  /\ issued = <<>>
  /\ cachedToken = None

\* processPostToAudio(posts) from its entry to its first await: validation,
\* selection, and the call of saveSelectedPost
processPostToAudio(r, posts) ==
  /\ pc[r] = "idle"
  /\ IF EmptyInput(posts)
       THEN /\ pc' = [pc EXCEPT ![r] = "Failed"]
            /\ error' = [error EXCEPT ![r] =
                 Some(OrchestrationError(StepFailureCode("validate"), ""))]
            /\ UNCHANGED <<bestPost, calls>>
       ELSE \E best \in UNION {selectBestPost(posts.items, now) : now \in Clocks} :
                IF best = None
                  THEN /\ Throw(r, OrchestrationError(StepFailureCode("selectBestPost"), ""))
                       /\ calls' = [calls EXCEPT ![r] =
                            Return(Invoke(@, "selectBestPost"), "null")]
                       /\ UNCHANGED bestPost
                  ELSE /\ bestPost' = [bestPost EXCEPT ![r] = best]
                       /\ calls' = [calls EXCEPT ![r] =
                            Invoke(Return(Invoke(@, "selectBestPost"), "ok"),
                                   "saveSelectedPost")]
                       /\ pc' = [pc EXCEPT ![r] = "saveSelectedPost"]
                       /\ UNCHANGED error
  /\ UNCHANGED <<aloneVars, storeVars, savedPost, audioResult, fileName, uploadResult,
                 audioFile, result>>

\* the insert of saveSelectedPost is answered; the run goes on to its next await
SaveSelectedPost(r) ==
  /\ pc[r] = "saveSelectedPost"
  /\ LET post == bestPost[r][1].post
         row == [id |-> gen_random_uuid(r),
                 reddit_post_id |-> post.id,
                 selection_score |-> bestPost[r][1].totalScore,
                 audio_file_id |-> NULL_ID]
     IN  \E dbOk \in BOOLEAN :
           IF ~dbOk
             THEN \* DB_INSERT_ERROR, NO_DATA, DB_ERROR
                  /\ Throw(r, OrchestrationError(StepFailureCode("saveSelectedPost"),
                                                 "DB_INSERT_ERROR"))
                  /\ calls' = [calls EXCEPT ![r] = Return(@, "DB_INSERT_ERROR")]
                  /\ UNCHANGED <<selected_posts, savedPost>>
           ELSE IF UniqueViolation(post.id)
             THEN \* DUPLICATE_POST: look the existing row up
                  /\ calls' = [calls EXCEPT ![r] =
                       Invoke(Return(@, "DUPLICATE_POST"), "getSelectedPostByRedditId")]
                  /\ pc' = [pc EXCEPT ![r] = "getSelectedPostByRedditId"]
                  /\ UNCHANGED <<selected_posts, savedPost, error>>
           ELSE /\ selected_posts' = selected_posts \cup {row}
                /\ savedPost' = [savedPost EXCEPT ![r] = Some(row)]
                /\ calls' = [calls EXCEPT ![r] = Invoke(Return(@, "ok"), "generateAudio")]
                /\ pc' = [pc EXCEPT ![r] = "generateAudio"]
                /\ UNCHANGED error
  /\ UNCHANGED <<aloneVars, audio_files, bucket, bestPost, audioResult, fileName,
                 uploadResult, audioFile, result>>

\* select * from selected_posts where reddit_post_id = redditPostId, single():
\* the row, or null when there is none (PGRST116)
getSelectedPostByRedditId(redditPostId) ==
  LET found == {row \in selected_posts : row.reddit_post_id = redditPostId}
  IN  IF found = {} THEN None ELSE Some(CHOOSE row \in found : TRUE)

\* mutant: a failed lookup counts as processed
isPostProcessedFailClosed(redditPostId, dbOk) ==
  IF ~dbOk THEN TRUE
  ELSE LET post == getSelectedPostByRedditId(redditPostId)
       IN  post # None /\ post[1].audio_file_id # NULL_ID

\* isPostProcessed(redditPostId); dbOk: the lookup did not throw
isPostProcessed(redditPostId, dbOk) ==
  IF ~dbOk THEN FALSE
  ELSE LET post == getSelectedPostByRedditId(redditPostId)
       IN  post # None /\ post[1].audio_file_id # NULL_ID

\* mutant: the error of the lookup is reported as a failure of the insert
lookupThrowsAsSaveFailed(e) == OrchestrationError(StepFailureCode("saveSelectedPost"), e.code)

\* the lookup of the DUPLICATE_POST branch throws e: it is awaited inside the
\* catch block of the insert, where nothing catches it
lookupThrows(e) == e

\* the select of getSelectedPostByRedditId is answered
GetSelectedPostByRedditId(r) ==
  /\ pc[r] = "getSelectedPostByRedditId"
  /\ LET existingPost == getSelectedPostByRedditId(bestPost[r][1].post.id)
         branch == onDuplicate(existingPost, StorageError("DUPLICATE_POST"))
         returned == IF existingPost = None THEN "null"
                     ELSE IF existingPost[1].audio_file_id # NULL_ID THEN "linked"
                     ELSE "unlinked"
     IN  \E dbOk \in BOOLEAN :
           IF ~dbOk
             THEN \* DB_SELECT_ERROR, DB_ERROR: thrown from inside the catch block
                  /\ Throw(r, lookupThrows(StorageError("DB_SELECT_ERROR")))
                  /\ calls' = [calls EXCEPT ![r] = Return(@, "DB_SELECT_ERROR")]
                  /\ UNCHANGED savedPost
           ELSE IF branch.throw
             THEN /\ Throw(r, branch.error)
                  /\ calls' = [calls EXCEPT ![r] = Return(@, returned)]
                  /\ UNCHANGED savedPost
           ELSE /\ savedPost' = [savedPost EXCEPT ![r] = branch.savedPost]
                /\ calls' = [calls EXCEPT ![r] =
                     Invoke(Return(@, returned), "generateAudio")]
                /\ pc' = [pc EXCEPT ![r] = "generateAudio"]
                /\ UNCHANGED error
  /\ UNCHANGED <<aloneVars, storeVars, bestPost, audioResult, fileName, uploadResult,
                 audioFile, result>>

\* ttsService.generateAudio returns or throws; on success the file name is
\* generated (Date.now()) and uploadAudioFile is called
GenerateAudio(r) ==
  /\ pc[r] = "generateAudio"
  /\ \E oracle \in Oracles, now \in Timestamps(r) :
       LET res == generateAudio(oracle)
       IN  IF res.ok
             THEN /\ audioResult' = [audioResult EXCEPT ![r] =
                       Some([provider |-> res.provider, voice |-> res.voice])]
                  /\ fileName' = [fileName EXCEPT ![r] =
                       Some(generateAudioFileName(bestPost[r][1].post.id, res.provider, now))]
                  /\ calls' = [calls EXCEPT ![r] =
                       Invoke(Return(@, "ok"), "uploadAudioFile")]
                  /\ pc' = [pc EXCEPT ![r] = "uploadAudioFile"]
                  /\ UNCHANGED error
             ELSE /\ Throw(r, OrchestrationError(StepFailureCode("generateAudio"), res.code))
                  /\ calls' = [calls EXCEPT ![r] = Return(@, res.code)]
                  /\ UNCHANGED <<audioResult, fileName>>
  /\ UNCHANGED <<aloneVars, storeVars, bestPost, savedPost, uploadResult, audioFile, result>>

\* mutant: the outcome of the upload is not looked at
UploadAudioFileUnchecked(r) ==
  /\ pc[r] = "uploadAudioFile"
  /\ \E storageOk \in BOOLEAN :
       LET uploaded == storageOk /\ fileName[r][1] \notin bucket
       IN  /\ bucket' = IF uploaded THEN bucket \cup {fileName[r][1]} ELSE bucket
           /\ uploadResult' = [uploadResult EXCEPT ![r] =
                Some([audioFileId |-> fileName[r][1],
                      publicUrl |-> getPublicUrl(fileName[r][1])])]
           /\ calls' = [calls EXCEPT ![r] =
                Invoke(Return(@, IF uploaded THEN "ok" ELSE "UPLOAD_ERROR"), "saveAudioFile")]
           /\ pc' = [pc EXCEPT ![r] = "saveAudioFile"]
  /\ UNCHANGED <<aloneVars, selected_posts, audio_files, bestPost, savedPost, result,
                 error, audioResult, fileName, audioFile>>

\* the upload (upsert: false) is answered
UploadAudioFile(r) ==
  /\ pc[r] = "uploadAudioFile"
  /\ \E storageOk \in BOOLEAN :
       IF storageOk /\ fileName[r][1] \notin bucket
         THEN /\ bucket' = bucket \cup {fileName[r][1]}
              /\ uploadResult' = [uploadResult EXCEPT ![r] =
                   Some([audioFileId |-> fileName[r][1],
                         publicUrl |-> getPublicUrl(fileName[r][1])])]
              /\ calls' = [calls EXCEPT ![r] = Invoke(Return(@, "ok"), "saveAudioFile")]
              /\ pc' = [pc EXCEPT ![r] = "saveAudioFile"]
              /\ UNCHANGED <<error, audioResult, fileName, audioFile>>
         ELSE \* UPLOAD_ERROR (an object of that name exists, or the upload failed)
              /\ Throw(r, OrchestrationError(StepFailureCode("uploadAudioFile"),
                                             "UPLOAD_ERROR"))
              /\ calls' = [calls EXCEPT ![r] = Return(@, "UPLOAD_ERROR")]
              /\ Forget(r)
              /\ UNCHANGED bucket
  /\ UNCHANGED <<aloneVars, selected_posts, audio_files, bestPost, savedPost, result>>

\* the insert of saveAudioFile is answered
SaveAudioFile(r) ==
  /\ pc[r] = "saveAudioFile"
  /\ LET row == [id |-> gen_random_uuid(r),
                 file_url |-> uploadResult[r][1].publicUrl,
                 tts_provider |-> audioResult[r][1].provider,
                 voice_used |-> audioResult[r][1].voice]
     IN  \E dbOk \in BOOLEAN :
           IF dbOk
             THEN /\ audio_files' = audio_files \cup {row}
                  /\ audioFile' = [audioFile EXCEPT ![r] = Some(row)]
                  /\ calls' = [calls EXCEPT ![r] =
                       Invoke(Return(@, "ok"), "linkAudioToPost")]
                  /\ pc' = [pc EXCEPT ![r] = "linkAudioToPost"]
                  /\ UNCHANGED <<error, audioResult, fileName, uploadResult>>
             ELSE /\ Throw(r, OrchestrationError(StepFailureCode("saveAudioFile"),
                                                 "DB_INSERT_ERROR"))
                  /\ calls' = [calls EXCEPT ![r] = Return(@, "DB_INSERT_ERROR")]
                  /\ Forget(r)
                  /\ UNCHANGED audio_files
  /\ UNCHANGED <<aloneVars, selected_posts, bucket, bestPost, savedPost, result>>

\* mutant: the update writes the post's own id into audio_file_id
linkAudioToPostSwapped(postId, audioFileId) ==
  {IF row.id = postId THEN [row EXCEPT !.audio_file_id = postId] ELSE row :
     row \in selected_posts}

\* mutant: the update matches no row
linkAudioToPostNoRow(postId, audioFileId) == selected_posts

\* update selected_posts set audio_file_id = audioFileId where id = postId
linkAudioToPost(postId, audioFileId) ==
  {IF row.id = postId THEN [row EXCEPT !.audio_file_id = audioFileId] ELSE row :
     row \in selected_posts}

\* the update of linkAudioToPost is answered; the run returns its result
LinkAudioToPost(r) ==
  /\ pc[r] = "linkAudioToPost"
  /\ \E dbOk \in BOOLEAN :
       IF dbOk
         THEN /\ selected_posts' = linkAudioToPost(savedPost[r][1].id, audioFile[r][1].id)
              /\ result' = [result EXCEPT ![r] =
                   Some([selectedPost |-> savedPost[r][1],
                         audioFile |-> audioFile[r][1],
                         audioUrl |-> uploadResult[r][1].publicUrl])]
              /\ calls' = [calls EXCEPT ![r] = Return(@, "ok")]
              /\ pc' = [pc EXCEPT ![r] = "Complete"]
              /\ Forget(r)
              /\ UNCHANGED error
         ELSE /\ Throw(r, OrchestrationError(StepFailureCode("linkAudioToPost"),
                                             "DB_UPDATE_ERROR"))
              /\ calls' = [calls EXCEPT ![r] = Return(@, "DB_UPDATE_ERROR")]
              /\ Forget(r)
              /\ UNCHANGED <<selected_posts, result>>
  /\ UNCHANGED <<aloneVars, audio_files, bucket, bestPost, savedPost>>

\* isPostProcessed(redditPostId) called and answered: one lookup, whose error
\* is caught; the answer is what the caller receives
IsPostProcessed(r, redditPostId) ==
  /\ pc[r] = "idle"
  /\ \E dbOk \in BOOLEAN :
       LET post == getSelectedPostByRedditId(redditPostId)
           returned == IF ~dbOk THEN "DB_SELECT_ERROR"
                       ELSE IF post = None THEN "null"
                       ELSE IF post[1].audio_file_id # NULL_ID THEN "linked"
                       ELSE "unlinked"
       IN  /\ calls' = [calls EXCEPT ![r] =
                Return(Invoke(@, "getSelectedPostByRedditId"), returned)]
           /\ result' = [result EXCEPT ![r] =
                Some([redditPostId |-> redditPostId,
                      processed |-> isPostProcessed(redditPostId, dbOk)])]
           /\ pc' = [pc EXCEPT ![r] = "Answered"]
  /\ UNCHANGED <<aloneVars, storeVars, bestPost, savedPost, audioResult, fileName,
                 uploadResult, audioFile, error>>

\* the retention policy of a collaborator deletes a selected post (the
\* service role may do everything on selected_posts).  The deletions followed
\* are those that fall between a run's uniqueness violation and its lookup of
\* the row.
RetentionDelete(row) ==
  /\ row \in selected_posts
  /\ \E r \in Runs : /\ pc[r] = "getSelectedPostByRedditId"
                     /\ bestPost[r][1].post.id = row.reddit_post_id
  /\ selected_posts' = selected_posts \ {row}
  /\ UNCHANGED <<aloneVars, audio_files, bucket, runVars>>

Next ==
  \E r \in Runs :
    \/ \E posts \in Batches : processPostToAudio(r, posts)
    \/ SaveSelectedPost(r)
    \/ GetSelectedPostByRedditId(r)
    \/ GenerateAudio(r)
    \/ UploadAudioFile(r)
    \/ SaveAudioFile(r)
    \/ LinkAudioToPost(r)

Spec == Init /\ [][Next]_vars

\* the core together with the retention collaborator
NextRetention ==
  \/ Next
  \/ \E row \in selected_posts : RetentionDelete(row)

SpecRetention == Init /\ [][NextRetention]_vars

\* a call some run awaits is answered (it returns or it throws)
Answer ==
  \E r \in Runs :
    \/ SaveSelectedPost(r)
    \/ GetSelectedPostByRedditId(r)
    \/ GenerateAudio(r)
    \/ UploadAudioFile(r)
    \/ SaveAudioFile(r)
    \/ LinkAudioToPost(r)

\* while calls are awaited, one of them is eventually answered
SpecLive == Init /\ [][Next]_vars /\ WF_vars(Answer)

\* ttsService.generateAudio called on its own, the providers behaving as
\* oracle says; what it did and what it returned or threw is kept in tts
GenerateAudioCall(oracle) ==
  /\ tts = None
  /\ tts' = Some([oracle |-> oracle, result |-> generateAudio(oracle)])
  /\ UNCHANGED <<storeVars, runVars, statusVars, analyzerVars, generating, redditVars>>

\* every behaviour of the providers during one generateAudio call: for each
\* provider of the list, what each of its attempts meets
AllOracles == [1..Len(providers) -> [1..MaxAttempts -> AttemptOutcomes]]

\* one call is followed: nothing is drawn once it has been made
NextTTS ==
  \E oracle \in (IF tts = None THEN AllOracles ELSE {}) : GenerateAudioCall(oracle)

SpecTTS == Init /\ [][NextTTS]_vars

(***************************************************************************)
(* A TTSService constructed and asked for the status of its providers      *)
(***************************************************************************)
\* mutant: the fallback provider is pushed before the primary one
initializeProvidersFallbackFirst(elevenLabs, inworld) ==
  LET afterFallback == IF inworld THEN <<"inworld">> ELSE <<>>
      afterPrimary == IF elevenLabs THEN Append(afterFallback, "elevenlabs")
                                    ELSE afterFallback
  IN  IF Len(afterPrimary) = 0
        THEN [ok |-> FALSE, providers |-> <<>>, code |-> "NO_PROVIDERS"]
        ELSE [ok |-> TRUE, providers |-> afterPrimary, code |-> ""]

\* the constructor: elevenLabs and inworld say whether getElevenLabs() and
\* getInworld() return a provider (TRUE) or throw; a provider that throws
\* is left out, and the constructor throws when none is left
initializeProviders(elevenLabs, inworld) ==
  LET afterPrimary == IF elevenLabs THEN <<"elevenlabs">> ELSE <<>>
      afterFallback == IF inworld THEN Append(afterPrimary, "inworld")
                                  ELSE afterPrimary
  IN  IF Len(afterFallback) = 0
        THEN [ok |-> FALSE, providers |-> <<>>, code |-> "NO_PROVIDERS"]
        ELSE [ok |-> TRUE, providers |-> afterFallback, code |-> ""]

\* new TTSService(): elevenLabs and inworld are kept beside what was built
Construct(elevenLabs, inworld) ==
  /\ service = None
  /\ service' = Some([elevenLabs |-> elevenLabs, inworld |-> inworld,
                      built |-> initializeProviders(elevenLabs, inworld),
                      currentProviderIndex |-> 0])
  /\ UNCHANGED <<storeVars, runVars, tts, probe, settled, status, analyzerVars, generating, redditVars>>

(***************************************************************************)
(* generateAudio called on the constructed service, several calls at a     *)
(* time.  A call is suspended while generateWithRetry works on a provider; *)
(* it reads this.providers again at every turn of its loop.                *)
(***************************************************************************)
\* what the provider called name does during a call that meets oracle
behaviour(oracle, name) ==
  oracle[CHOOSE k \in 1..Len(providers) : providers[k] = name]

\* mutant: a provider that failed is moved to the end of this.providers
thisAfterDemotingFailed(this, i, ok) ==
  IF ok \/ i > Len(this.built.providers) THEN this
  ELSE LET list == this.built.providers
       IN  [this EXCEPT !.built.providers =
              Append(SubSeq(list, 1, i - 1) \o SubSeq(list, i + 1, Len(list)), list[i]),
                        !.currentProviderIndex = i]

\* the fields of the service once generateWithRetry on this.providers[i] has
\* settled (ok: it returned): generateAudio assigns none of them
thisAfterGenerateWithRetry(this, i, ok) == this

\* generateAudio(post) from its entry to the first await of generateWithRetry
\* on this.providers[0]
GenerateAudioStarts(c, oracle) ==
  /\ service # None
  /\ service[1].built.ok
  /\ generating[c] = None
  /\ generating' = [generating EXCEPT ![c] =
       Some([pc |-> "generateWithRetry", oracle |-> oracle, i |-> 1,
             provider |-> service[1].built.providers[1], lastError |-> "",
             tried |-> <<>>, result |-> None,
             after |-> {d \in Calls : /\ generating[d] # None
                                       /\ generating[d][1].pc # "generateWithRetry"}])]
  /\ UNCHANGED <<storeVars, runVars, tts, statusVars, analyzerVars, redditVars>>

\* generateWithRetry on the provider the call is trying returns or throws;
\* the call returns, goes on to the next provider of this.providers, or throws
GenerateWithRetrySettles(c) ==
  /\ generating[c] # None
  /\ generating[c][1].pc = "generateWithRetry"
  /\ LET call == generating[c][1]
         res == generateWithRetry(behaviour(call.oracle, call.provider))
         tried == Append(call.tried, [name |-> call.provider, ok |-> res.ok])
         this == thisAfterGenerateWithRetry(service[1], call.i, res.ok)
         list == this.built.providers
     IN  /\ service' = Some(this)
         /\ IF res.ok
              THEN generating' = [generating EXCEPT ![c] =
                     Some([call EXCEPT !.pc = "returned", !.tried = tried,
                             !.result = Some([provider |-> call.provider,
                                              voice |-> voiceOf(call.provider)])])]
            ELSE IF call.i + 1 =< Len(list)
              THEN generating' = [generating EXCEPT ![c] =
                     Some([call EXCEPT !.i = call.i + 1, !.tried = tried,
                             !.provider = list[call.i + 1],
                             !.lastError = providerCatch(call.lastError, res.error)])]
            ELSE generating' = [generating EXCEPT ![c] =
                     Some([call EXCEPT !.pc = "threw", !.tried = tried, !.i = call.i + 1,
                             !.lastError = providerCatch(call.lastError, res.error),
                             !.result = Some([provider |-> "",
                                              voice |-> "ALL_PROVIDERS_FAILED"])])]
  /\ UNCHANGED <<storeVars, runVars, tts, probe, settled, status, analyzerVars, redditVars>>

NextFailover ==
  \/ \E elevenLabs \in BOOLEAN, inworld \in BOOLEAN : Construct(elevenLabs, inworld)
  \/ \E c \in Calls, oracle \in Oracles : GenerateAudioStarts(c, oracle)
  \/ \E c \in Calls : GenerateWithRetrySettles(c)

SpecFailover == Init /\ [][NextFailover]_vars

\* what getQuotaRemaining() may return: -1 (unlimited or unknown) or a count
Quotas == {-1, 0, 5000}

\* the value a callback of getProvidersStatus returns
ProviderStatus(name, available, quota) ==
  [name |-> name, available |-> available, quota |-> quota]

\* getProvidersStatus() up to the first await of each callback: map() runs
\* the callbacks in list order, each calls isAvailable() and is suspended
GetProvidersStatus ==
  /\ service # None
  /\ service[1].built.ok
  /\ probe = <<>>
  /\ probe' = [i \in 1..Len(service[1].built.providers) |->
                 [pc |-> "isAvailable", isAvailable |-> None,
                  getQuotaRemaining |-> None, threw |-> FALSE, value |-> None]]
  /\ UNCHANGED <<storeVars, runVars, tts, service, settled, status, analyzerVars, generating, redditVars>>

\* provider i answers isAvailable(): answer is the boolean returned, or None
\* when the call throws; the catch then settles the callback
IsAvailable(i, answer) ==
  /\ i \in DOMAIN probe
  /\ probe[i].pc = "isAvailable"
  /\ IF answer = None
       THEN /\ probe' = [probe EXCEPT ![i].pc = "settled", ![i].threw = TRUE,
                            ![i].value = Some(ProviderStatus(service[1].built.providers[i],
                                                             FALSE, -1))]
            /\ settled' = Append(settled, i)
       ELSE /\ probe' = [probe EXCEPT ![i].pc = "getQuotaRemaining",
                                      ![i].isAvailable = answer]
            /\ UNCHANGED settled
  /\ UNCHANGED <<storeVars, runVars, tts, service, status, analyzerVars, generating, redditVars>>

\* provider i answers getQuotaRemaining(): answer is the number returned, or
\* None when the call throws
GetQuotaRemaining(i, answer) ==
  /\ i \in DOMAIN probe
  /\ probe[i].pc = "getQuotaRemaining"
  /\ probe' = [probe EXCEPT
       ![i].pc = "settled",
       ![i].getQuotaRemaining = answer,
       ![i].threw = (answer = None),
       ![i].value = IF answer = None
                      THEN Some(ProviderStatus(service[1].built.providers[i], FALSE, -1))
                      ELSE Some(ProviderStatus(service[1].built.providers[i],
                                               probe[i].isAvailable[1], answer[1]))]
  /\ settled' = Append(settled, i)
  /\ UNCHANGED <<storeVars, runVars, tts, service, status, analyzerVars, generating, redditVars>>

\* mutant: the values are gathered in the order the callbacks settled
PromiseAllAsSettled(values, order) == [k \in 1..Len(order) |-> values[order[k]]]

\* Promise.all: the values of the promises at their positions in the array
\* given, whatever the order they settled in
PromiseAll(values, order) == [i \in 1..Len(values) |-> values[i]]

\* every callback has settled: Promise.all resolves and the array is returned
ResolveStatus ==
  /\ probe # <<>>
  /\ status = None
  /\ \A i \in DOMAIN probe : probe[i].pc = "settled"
  /\ status' = Some(PromiseAll([i \in DOMAIN probe |-> probe[i].value[1]], settled))
  /\ UNCHANGED <<storeVars, runVars, tts, service, probe, settled, analyzerVars, generating, redditVars>>

NextProviders ==
  \/ \E elevenLabs \in BOOLEAN, inworld \in BOOLEAN : Construct(elevenLabs, inworld)
  \/ GetProvidersStatus
  \/ \E i \in DOMAIN probe, answer \in {None, Some(TRUE), Some(FALSE)} :
       IsAvailable(i, answer)
  \/ \E i \in DOMAIN probe, answer \in {None} \cup {Some(q) : q \in Quotas} :
       GetQuotaRemaining(i, answer)
  \/ ResolveStatus

SpecProviders == Init /\ [][NextProviders]_vars

(***************************************************************************)
(* The analyzer called on its own: a batch is analysed, and analysed again *)
(***************************************************************************)
\* selectBestPost(posts) called while Date.now() / 1000 is now; the second
\* call is given the batch of the first, at the same time or later
SelectBestPost(posts, now) ==
  /\ Len(selections) < 2
  /\ selections # <<>>
       => (posts = selections[1].posts /\ now >= selections[1].now)
  /\ \E best \in selectBestPost(posts, now) :
       selections' = Append(selections,
                            [posts |-> posts, now |-> now, returned |-> best])
  /\ UNCHANGED <<storeVars, runVars, tts, statusVars, lengthScore, generating, redditVars>>

NextAnalyzer ==
  \E posts \in SeqsUpTo(AnalyzerPosts, MaxBatch), now \in Clocks :
    SelectBestPost(posts, now)

SpecAnalyzer == Init /\ [][NextAnalyzer]_vars

(***************************************************************************)
(* The Reddit client and its authentication service: makeRequest and       *)
(* getAccessToken called by concurrent callers.  A caller is suspended at  *)
(* the awaits of the source: the token request, the resumption with the    *)
(* headers, and the request to the API.                                    *)
(***************************************************************************)
maxRequests == 60
windowMs == 60000
TokenBufferMs == 300000

\* the values Date.now() takes
ClockTimes == {0, 60000}

\* what the token endpoint answers: status 0 is a fetch that rejects
TokenAnswers ==
  { [status |-> 200, expires_in |-> 3600],
    [status |-> 200, expires_in |-> 360],
    [status |-> 401, expires_in |-> 0],
    [status |-> 0, expires_in |-> 0] }

\* what the API answers: a response with a status, whose body parses or
\* does not, or a fetch that rejects
FetchAnswers ==
  { [rejected |-> FALSE, status |-> st, json |-> TRUE] : st \in {200, 404, 403, 429, 503} }
    \cup { [rejected |-> FALSE, status |-> 200, json |-> FALSE],
           [rejected |-> TRUE, status |-> 0, json |-> FALSE] }

CachedToken(accessToken, expiresAt) ==
  [accessToken |-> accessToken, expiresAt |-> expiresAt]

\* this.requests.filter(time => now - time < this.windowMs)
filter(times, now) ==
  LET inWindow(time) == now - time < windowMs
  IN  SelectSeq(times, inWindow)

\* canMakeRequest(), on the filtered list
canMakeRequest(kept) == Len(kept) < maxRequests

\* mutant: the cached token is used until it expires
tokenValidUntilExpiry(token, now) ==
  token # None /\ token[1].expiresAt > now

\* this.cachedToken && this.cachedToken.expiresAt > Date.now() + 300000
tokenValid(token, now) ==
  token # None /\ token[1].expiresAt > now + TokenBufferMs

\* getAccessToken() from its entry to its return or to the await of the
\* token request, for a caller that entered through entry
enterGetAccessToken(c, entry) ==
  IF tokenValid(cachedToken, clock)
    THEN [Idle EXCEPT !.entry = entry,
                      !.pc = IF entry = "getAccessToken" THEN "returned" ELSE "headers",
                      !.token = Some(cachedToken[1].accessToken)]
    ELSE [Idle EXCEPT !.entry = entry, !.pc = "getAccessToken", !.fetched = TRUE]

\* makeRequest(endpoint) from its entry to its first await: the rate limit
\* check, then getAuthenticatedHeaders() and in it getAccessToken()
MakeRequest(c) ==
  /\ client[c].pc = "idle"
  /\ LET kept == filter(requests, clock)
     IN  /\ requests' = kept
         /\ IF ~canMakeRequest(kept)
              THEN client' = [client EXCEPT ![c] =
                     [Idle EXCEPT !.entry = "makeRequest", !.pc = "threw",
                                  !.error = "RedditAPIError", !.status = 429]]
              ELSE client' = [client EXCEPT ![c] = enterGetAccessToken(c, "makeRequest")]
  /\ UNCHANGED <<storeVars, runVars, tts, statusVars, analyzerVars, generating,
                 clock, issued, cachedToken>>

\* getAccessToken() called on the authentication service directly
GetAccessToken(c) ==
  /\ client[c].pc = "idle"
  /\ client' = [client EXCEPT ![c] = enterGetAccessToken(c, "getAccessToken")]
  /\ UNCHANGED <<storeVars, runVars, tts, statusVars, analyzerVars, generating,
                 clock, requests, issued, cachedToken>>

\* the token request is answered: the token is cached and returned, or a
\* RedditAuthError is thrown (through makeRequest unchanged)
TokenResponse(c, answer) ==
  /\ client[c].pc = "getAccessToken"
  /\ IF answer.status = 200
       THEN /\ cachedToken' = Some(CachedToken(c, clock + answer.expires_in * 1000))
            /\ client' = [client EXCEPT ![c] =
                 [@ EXCEPT !.pc = IF client[c].entry = "getAccessToken"
                                    THEN "returned" ELSE "headers",
                           !.token = Some(c)]]
       ELSE /\ cachedToken' = cachedToken
            /\ client' = [client EXCEPT ![c] =
                 [@ EXCEPT !.pc = "threw", !.error = "RedditAuthError",
                           !.status = answer.status]]
  /\ UNCHANGED <<storeVars, runVars, tts, statusVars, analyzerVars, generating,
                 clock, requests, issued>>

\* makeRequest resumes with the headers and sends the request to the API
Fetch(c) ==
  /\ client[c].pc = "headers"
  /\ issued' = Append(issued, clock)
  /\ client' = [client EXCEPT ![c] = [@ EXCEPT !.pc = "fetch", !.sent = TRUE]]
  /\ UNCHANGED <<storeVars, runVars, tts, statusVars, analyzerVars, generating,
                 clock, requests, cachedToken>>

\* the request to the API settles: a response is recorded by the rate
\* limiter before its status is looked at; a fetch that rejects is not
FetchResponse(c, answer) ==
  /\ client[c].pc = "fetch"
  /\ IF answer.rejected
       THEN /\ requests' = requests
            /\ client' = [client EXCEPT ![c] =
                 [@ EXCEPT !.pc = "threw", !.error = "RedditAPIError", !.status = 500]]
       ELSE /\ requests' = Append(requests, clock)
            /\ client' = [client EXCEPT ![c] =
                 IF answer.status = 200 /\ answer.json
                   THEN [@ EXCEPT !.pc = "returned", !.status = 200]
                 ELSE IF answer.status = 200
                   THEN [@ EXCEPT !.pc = "threw", !.error = "RedditAPIError", !.status = 500]
                 ELSE [@ EXCEPT !.pc = "threw", !.error = "RedditAPIError",
                                !.status = answer.status]]
  /\ UNCHANGED <<storeVars, runVars, tts, statusVars, analyzerVars, generating,
                 clock, issued, cachedToken>>

\* time passes
Tick ==
  /\ \E time \in ClockTimes :
       /\ time > clock
       /\ \A other \in ClockTimes : other > clock => time =< other
       /\ clock' = time
  /\ UNCHANGED <<storeVars, runVars, tts, statusVars, analyzerVars, generating,
                 requests, issued, cachedToken, client>>

\* the services after earlier calls: the rate limiter has recorded none, 59
\* or 60 requests sent and answered at time 0, and the token cache is empty
\* or holds a token that expires 6 minutes after time 0
InitReddit ==
  /\ AsConstructed
  /\ clock = 0
  /\ \E k \in {0, maxRequests - 1, maxRequests} :
       /\ requests = [n \in 1..k |-> 0]
       /\ issued = requests
  /\ cachedToken \in {None, Some(CachedToken(0, 360000))}

NextReddit ==
  \/ \E c \in Callers : MakeRequest(c)
  \/ \E c \in Callers : GetAccessToken(c)
  \/ \E c \in Callers, answer \in TokenAnswers : TokenResponse(c, answer)
  \/ \E c \in Callers : Fetch(c)
  \/ \E c \in Callers, answer \in FetchAnswers : FetchResponse(c, answer)
  \/ Tick

SpecReddit == InitReddit /\ [][NextReddit]_vars

\* calculateTextLengthScore called on a word count
CalculateTextLengthScore(wordCount) ==
  /\ lengthScore = None
  /\ lengthScore' = Some([wordCount |-> wordCount,
                          score |-> calculateTextLengthScore(wordCount)])
  /\ UNCHANGED <<storeVars, runVars, tts, statusVars, selections, generating, redditVars>>

NextTextLength ==
  \E wordCount \in (IF lengthScore = None THEN 0..MaxWords ELSE {}) :
    CalculateTextLengthScore(wordCount)

SpecTextLength == Init /\ [][NextTextLength]_vars

\* the orchestrator's two entry points called concurrently
NextStatus ==
  \/ Next
  \/ \E r \in Runs, redditPostId \in {p.id : p \in Catalogue} :
       IsPostProcessed(r, redditPostId)

SpecStatus == Init /\ [][NextStatus]_vars


(***************************************************************************)
(* Reading a run's state                                                   *)
(***************************************************************************)
Done(r) == pc[r] \in {"Complete", "Failed"}
Code(r) == IF error[r] = None THEN "" ELSE error[r][1].code
Cause(r) == IF error[r] = None THEN "" ELSE error[r][1].cause
Ops(r) == [i \in 1..Len(calls[r]) |-> calls[r][i].op]
Invoked(r, op) == \E i \in 1..Len(calls[r]) : calls[r][i].op = op
\* the position of the run's call of op in its log
At(r, op) == CHOOSE i \in 1..Len(calls[r]) : calls[r][i].op = op
\* the outcome of the run's call of op ("" when it made none)
Outcome(r, op) == IF Invoked(r, op) THEN calls[r][At(r, op)].res ELSE ""
\* the source item the run selected ("" when it selected none)
Source(r) == IF bestPost[r] = None THEN "" ELSE bestPost[r][1].post.id
SourceIds == {p.id : p \in Catalogue}
\* the source item an audio record was synthesized from, read from its file name
SourceOfAudio(a) == a.file_url[2][1]
\* no store call and no synthesis of the run failed
NoFault(r) ==
  \A i \in 1..Len(calls[r]) :
    calls[r][i].res \in {"pending", "ok", "DUPLICATE_POST", "unlinked", "linked"}

(***************************************************************************)
(* C1: two runs submitted concurrently with the same candidate item create *)
(* exactly one AudioRecord in total, under every interleaving of their     *)
(* store and synthesis calls; the second run returns the first run's       *)
(* result or fails with POST_ALREADY_PROCESSED.  (Stated for runs none of  *)
(* whose calls failed.)                                                    *)
(***************************************************************************)
C1_ExactlyOneAudioRecord ==
  \A r1, r2 \in Runs :
    ( /\ r1 # r2
      /\ Done(r1) /\ Done(r2)
      /\ NoFault(r1) /\ NoFault(r2)
      /\ Source(r1) # "" /\ Source(r1) = Source(r2)
      /\ Outcome(r1, "saveSelectedPost") = "ok" )
    => /\ Cardinality({a \in audio_files : SourceOfAudio(a) = Source(r1)}) = 1
       /\ \/ result[r2] = result[r1]
          \/ Code(r2) = "POST_ALREADY_PROCESSED"

(***************************************************************************)
(* C2 as stated: at most one SelectedRecord per source identifier, and     *)
(* among the runs that selected the same source item exactly one run's     *)
(* insert succeeds while every other run observes DUPLICATE_POST.          *)
(***************************************************************************)
RunsOf(s) == {r \in Runs : Source(r) = s}
InsertAnswered(r) == Outcome(r, "saveSelectedPost") \notin {"", "pending"}
UniqueSource ==
  \A p1, p2 \in selected_posts : p1.reddit_post_id = p2.reddit_post_id => p1 = p2

C3_AudioAfterSynthesis ==
  /\ \A a \in audio_files :
       LET r == a.id
       IN  /\ r \in Runs
           /\ Invoked(r, "generateAudio") /\ Invoked(r, "saveAudioFile")
           /\ Outcome(r, "generateAudio") = "ok"
           /\ Outcome(r, "uploadAudioFile") = "ok"
           /\ Outcome(r, "saveAudioFile") = "ok"
           /\ At(r, "generateAudio") < At(r, "saveAudioFile")
           /\ a.tts_provider = a.file_url[2][2]
           /\ SourceOfAudio(a) = Source(r)
  /\ \A p \in selected_posts :
       p.audio_file_id # NULL_ID
       => \E a \in audio_files :
            /\ a.id = p.audio_file_id
            /\ a.file_url[2] \in bucket
            /\ a.file_url = getPublicUrl(a.file_url[2])
            /\ SourceOfAudio(a) = p.reddit_post_id

\* a run other than the one that inserted the SelectedRecord has linked its
\* AudioRecord to it
C3_Witness ==
  \E p \in selected_posts, a \in audio_files :
    /\ p.audio_file_id = a.id
    /\ a.id # p.id
    /\ pc[a.id] = "Complete"

(***************************************************************************)
(* C4: within one run the operations are invoked in the order select,      *)
(* persist SelectedRecord (the insert and, on DUPLICATE_POST, the lookup   *)
(* of the existing record), generate, upload, persist AudioRecord, link;   *)
(* an operation is invoked only after the previous step has returned       *)
(* successfully (the insert returned the row, or the lookup returned an    *)
(* unlinked row to reuse); no step is invoked twice or out of order.       *)
(***************************************************************************)
StepOrder ==
  <<"selectBestPost", "saveSelectedPost", "generateAudio", "uploadAudioFile",
    "saveAudioFile", "linkAudioToPost">>
IsLookup(op) == op = "getSelectedPostByRedditId"
NotLookup(op) == ~IsLookup(op)
IsPrefix(s, t) == Len(s) =< Len(t) /\ s = SubSeq(t, 1, Len(s))

C4_StepsInOrder ==
  \A r \in Runs :
    /\ IsPrefix(SelectSeq(Ops(r), NotLookup), StepOrder)
    /\ \A i \in 1..Len(calls[r]) :
         /\ IsLookup(calls[r][i].op)
              => /\ i = 3
                 /\ calls[r][i - 1].op = "saveSelectedPost"
                 /\ calls[r][i - 1].res = "DUPLICATE_POST"
         /\ i < Len(calls[r])
              => \/ calls[r][i].res = "ok"
                 \/ /\ calls[r][i].op = "saveSelectedPost"
                    /\ calls[r][i].res = "DUPLICATE_POST"
                    /\ IsLookup(calls[r][i + 1].op)
                 \/ IsLookup(calls[r][i].op) /\ calls[r][i].res = "unlinked"
         /\ calls[r][i].res = "pending" => i = Len(calls[r]) /\ ~Done(r)
    /\ pc[r] = "Complete" => SelectSeq(Ops(r), NotLookup) = StepOrder
    /\ pc[r] \notin {"idle", "Complete", "Failed"}
         => /\ calls[r] # <<>>
            /\ calls[r][Len(calls[r])] = [op |-> pc[r], res |-> "pending"]

\* one run completed through the insert, another through the reuse of the
\* existing record
C4_Witness ==
  \E r1, r2 \in Runs :
    /\ pc[r1] = "Complete" /\ Ops(r1) = StepOrder
    /\ pc[r2] = "Complete" /\ Len(calls[r2]) = Len(StepOrder) + 1

(***************************************************************************)
(* C5: a run given an empty or missing input batch fails with              *)
(* EMPTY_POSTS_ARRAY and makes no store call, no selector call and no      *)
(* synthesis call; the store is unchanged.  Stated on the step that takes  *)
(* the batch, and on every state a run that failed this way is in.         *)
(***************************************************************************)
C5_EmptyBatchRejected ==
  /\ [][\A r \in Runs, posts \in {b \in Batches : b.missing \/ b.items = <<>>} :
          processPostToAudio(r, posts)
          => /\ pc'[r] = "Failed"
             /\ error'[r] = Some(OrchestrationError("EMPTY_POSTS_ARRAY", ""))
             /\ calls'[r] = <<>>
             /\ result'[r] = None
             /\ UNCHANGED storeVars]_vars
  /\ [](\A r \in Runs :
          Code(r) = "EMPTY_POSTS_ARRAY"
          => /\ pc[r] = "Failed"
             /\ calls[r] = <<>>
             /\ bestPost[r] = None /\ savedPost[r] = None /\ result[r] = None
             /\ \A p \in selected_posts : p.id # gen_random_uuid(r)
             /\ \A a \in audio_files : a.id # gen_random_uuid(r))

\* a run has been rejected for its empty batch while the store holds a record
C5_Witness ==
  \E r \in Runs :
    /\ Code(r) = "EMPTY_POSTS_ARRAY"
    /\ pc[r] = "Failed"
    /\ selected_posts # {}

(***************************************************************************)
(* C6: when the insert reports a uniqueness violation and the existing     *)
(* record already has its audio reference set, the run fails with          *)
(* POST_ALREADY_PROCESSED and performs no synthesis, no upload, no         *)
(* AudioRecord creation and no link; the store is left unchanged by it.    *)
(***************************************************************************)
LookupPath == <<"selectBestPost", "saveSelectedPost", "getSelectedPostByRedditId">>
WroteNothing(r) ==
  /\ \A p \in selected_posts : p.id # gen_random_uuid(r) /\ p.audio_file_id # gen_random_uuid(r)
  /\ \A a \in audio_files : a.id # gen_random_uuid(r)

C6_AlreadyProcessed ==
  \A r \in Runs :
    Outcome(r, "getSelectedPostByRedditId") = "linked"
    => /\ pc[r] = "Failed"
       /\ Code(r) = "POST_ALREADY_PROCESSED"
       /\ Outcome(r, "saveSelectedPost") = "DUPLICATE_POST"
       /\ Ops(r) = LookupPath
       /\ savedPost[r] = None /\ result[r] = None
       /\ WroteNothing(r)

\* a run found the record of its source item linked by a run that completed
C6_Witness ==
  \E r, w \in Runs :
    /\ Outcome(r, "getSelectedPostByRedditId") = "linked"
    /\ Code(r) = "POST_ALREADY_PROCESSED"
    /\ pc[w] = "Complete" /\ Source(w) = Source(r)

(***************************************************************************)
(* C7: when the insert reports a uniqueness violation and the existing     *)
(* record has no audio reference, the run does not fail there: it goes on  *)
(* to synthesis, upload, AudioRecord creation and link holding the         *)
(* existing record; its link sets the audio reference of the existing      *)
(* record's id and the selectedPost it returns is the existing record.     *)
(***************************************************************************)
C7_ReuseUnlinked ==
  /\ [](\A r \in Runs :
          Outcome(r, "getSelectedPostByRedditId") = "unlinked"
          => /\ Outcome(r, "saveSelectedPost") = "DUPLICATE_POST"
             /\ Len(calls[r]) > Len(LookupPath)
             /\ SubSeq(Ops(r), 1, Len(LookupPath)) = LookupPath
             /\ SubSeq(Ops(r), Len(LookupPath) + 1, Len(calls[r]))
                  = SubSeq(StepOrder, 3, Len(calls[r]) - 1)
             /\ Code(r) \notin {"POST_ALREADY_PROCESSED", "POST_SAVE_FAILED"}
             /\ savedPost[r] # None
             /\ savedPost[r][1].id # gen_random_uuid(r)
             /\ savedPost[r][1].reddit_post_id = Source(r)
             /\ savedPost[r][1].audio_file_id = NULL_ID
             /\ \A p \in selected_posts : p.id # gen_random_uuid(r)
             /\ (Done(r) /\ NoFault(r)) => pc[r] = "Complete"
             /\ pc[r] = "Complete"
                  => /\ result[r][1].selectedPost = savedPost[r][1]
                     /\ result[r][1].audioFile \in audio_files
                     /\ result[r][1].audioFile.id = gen_random_uuid(r)
                     /\ SourceOfAudio(result[r][1].audioFile) = Source(r))
  /\ [][\A r \in Runs :
          ( /\ Outcome(r, "getSelectedPostByRedditId") = "unlinked"
            /\ pc[r] = "linkAudioToPost" /\ pc'[r] = "Complete" )
          => \E p \in selected_posts' :
               /\ p.id = savedPost[r][1].id
               /\ p.reddit_post_id = Source(r)
               /\ p.audio_file_id = result'[r][1].audioFile.id
               /\ \A q \in selected_posts' \ {p} : q \in selected_posts]_vars

\* a run that reused the existing record has completed
C7_Witness ==
  \E r \in Runs :
    /\ Outcome(r, "getSelectedPostByRedditId") = "unlinked"
    /\ pc[r] = "Complete"

Last(r) == calls[r][Len(calls[r])]
FailedAt(r, op) == calls[r] # <<>> /\ Last(r).op = op /\ Last(r).res \notin {"ok", "pending"}
Continues(res) == res \in {"ok", "pending", "DUPLICATE_POST", "unlinked"}

C9_StepFailureCodes ==
  /\ [](\A r \in Runs :
          /\ \A i \in 1..Len(calls[r]) :
               ~Continues(calls[r][i].res) => i = Len(calls[r]) /\ pc[r] = "Failed"
          /\ (pc[r] = "Failed" /\ calls[r] # <<>>) => ~Continues(Last(r).res)
          /\ FailedAt(r, "selectBestPost")
               => Code(r) = "NO_VALID_POSTS" /\ Last(r).res = "null"
          /\ FailedAt(r, "saveSelectedPost")
               => Code(r) = "POST_SAVE_FAILED" /\ Cause(r) = Last(r).res
          /\ FailedAt(r, "generateAudio")
               => /\ Code(r) = "TTS_FAILED"
                  /\ Cause(r) = "ALL_PROVIDERS_FAILED"
                  /\ Last(r).res = "ALL_PROVIDERS_FAILED"
          /\ FailedAt(r, "uploadAudioFile")
               => Code(r) = "UPLOAD_FAILED" /\ Cause(r) = Last(r).res
          /\ FailedAt(r, "saveAudioFile")
               => Code(r) = "METADATA_SAVE_FAILED" /\ Cause(r) = Last(r).res
          /\ FailedAt(r, "linkAudioToPost")
               => Code(r) = "LINK_FAILED" /\ Cause(r) = Last(r).res
          /\ pc[r] = "Failed" <=> error[r] # None
          /\ pc[r] = "Failed" => result[r] = None)
  /\ [][\A r \in Runs :
          pc[r] = "Failed"
          => /\ pc'[r] = pc[r] /\ calls'[r] = calls[r] /\ error'[r] = error[r]
             /\ result'[r] = result[r]]_vars

\* one run failed in synthesis, another in saving the AudioRecord
C9_Witness ==
  \E r1, r2 \in Runs :
    /\ FailedAt(r1, "generateAudio") /\ Code(r1) = "TTS_FAILED"
    /\ FailedAt(r2, "saveAudioFile") /\ Code(r2) = "METADATA_SAVE_FAILED"

(***************************************************************************)
(* C10 as stated: when a run fails with UPLOAD_FAILED, that run has made   *)
(* no write to the persistent store before the failure.                    *)
(***************************************************************************)
StoreWrites == {"saveSelectedPost", "saveAudioFile", "linkAudioToPost"}

C11_LinkFailedLeavesUnlinked ==
  [][\A r \in Runs :
       (pc[r] = "linkAudioToPost" /\ pc'[r] = "Failed")
       => /\ error'[r][1].code = "LINK_FAILED"
          /\ \E a \in audio_files' : a.id = gen_random_uuid(r)
          /\ \E p \in selected_posts' :
               p.reddit_post_id = bestPost[r][1].post.id /\ p.audio_file_id = NULL_ID
          /\ \A dbOk \in BOOLEAN :
               ~(isPostProcessed(bestPost[r][1].post.id, dbOk))']_vars

(***************************************************************************)
(* C12: the orchestrator never retries.  Within one run each of the insert *)
(* of the SelectedRecord, generate, the upload, the save of the            *)
(* AudioRecord and the link is invoked at most once; a run's log of calls  *)
(* only grows by one call at a time; once a step has failed the run makes  *)
(* no further call and is not started again.  Retries happen inside        *)
(* generate only.                                                          *)
(***************************************************************************)
TimesInvoked(r, op) == Cardinality({i \in 1..Len(calls[r]) : calls[r][i].op = op})
\* the synthesize calls generate makes under a provider behaviour
SynthCalls(oracle) ==
  LET tried == generateAudio(oracle).tried
      RECURSIVE Sum(_)
      Sum(i) == IF i = 0 THEN 0 ELSE tried[i].synth + Sum(i - 1)
  IN  Sum(Len(tried))

C12_NoOrchestratorRetry ==
  /\ [](\A r \in Runs :
          /\ \A op \in {"selectBestPost", "saveSelectedPost", "getSelectedPostByRedditId",
                        "generateAudio", "uploadAudioFile", "saveAudioFile",
                        "linkAudioToPost"} : TimesInvoked(r, op) =< 1
          /\ error[r] # None => pc[r] = "Failed")
  /\ [][\A r \in Runs :
          /\ Len(calls'[r]) \in {Len(calls[r]), Len(calls[r]) + 1, Len(calls[r]) + 2}
          /\ Ops(r) = SubSeq([i \in 1..Len(calls'[r]) |-> calls'[r][i].op], 1, Len(calls[r]))
          /\ \A i \in 1..Len(calls[r]) :
               calls[r][i].res # "pending" => calls'[r][i] = calls[r][i]
          /\ Done(r) => /\ pc'[r] = pc[r]
                        /\ calls'[r] = calls[r]
                        /\ error'[r] = error[r]]_vars

\* a run failed in generate, which it called once, while generate can call
\* synthesize several times
C12_Witness ==
  \E r \in Runs :
    /\ Code(r) = "TTS_FAILED"
    /\ TimesInvoked(r, "generateAudio") = 1
    /\ \E oracle \in Oracles : ~generateAudio(oracle).ok /\ SynthCalls(oracle) > 1

(***************************************************************************)
(* C13: every failure of a run reaches the caller as an OrchestrationError *)
(* whose code is one of the failure codes; an exception raised inside the  *)
(* run that is not an OrchestrationError (the storage error of a failed    *)
(* lookup) is wrapped as UNEXPECTED_ERROR with that exception as cause;    *)
(* no failure is swallowed: a run in which a call failed ends Failed with  *)
(* an error and never returns a result.                                    *)
(***************************************************************************)
FailureCodes ==
  {"EMPTY_POSTS_ARRAY", "NO_VALID_POSTS", "POST_SAVE_FAILED", "POST_ALREADY_PROCESSED",
   "TTS_FAILED", "UPLOAD_FAILED", "METADATA_SAVE_FAILED", "LINK_FAILED",
   "UNEXPECTED_ERROR"}

C13_FailuresSurfaceAsOrchestrationError ==
  \A r \in Runs :
    /\ error[r] # None
         => /\ error[r][1].name = "OrchestrationError"
            /\ error[r][1].code \in FailureCodes
            /\ pc[r] = "Failed"
            /\ result[r] = None
    /\ \A i \in 1..Len(calls[r]) :
         ~Continues(calls[r][i].res)
         => /\ pc[r] = "Failed"
            /\ error[r] # None
            /\ result[r] = None
    /\ FailedAt(r, "getSelectedPostByRedditId") /\ Last(r).res = "DB_SELECT_ERROR"
         => /\ Code(r) = "UNEXPECTED_ERROR"
            /\ Cause(r) = "DB_SELECT_ERROR"
    /\ Code(r) = "UNEXPECTED_ERROR"
         => /\ calls[r] # <<>>
            /\ Cause(r) = Last(r).res
            /\ Cause(r) # ""
    /\ result[r] # None
         => /\ pc[r] = "Complete"
            /\ error[r] = None
            /\ \A i \in 1..Len(calls[r]) : Continues(calls[r][i].res)

\* the lookup after a uniqueness violation threw a storage error
C13_Witness ==
  \E r \in Runs :
    /\ Outcome(r, "getSelectedPostByRedditId") = "DB_SELECT_ERROR"
    /\ Code(r) = "UNEXPECTED_ERROR"
    /\ pc[r] = "Failed"

(***************************************************************************)
(* C14: isPostProcessed(id) returns true if and only if the store lookup   *)
(* succeeds, a SelectedRecord with that source id exists and its audio     *)
(* reference is non-null; if the lookup fails it returns false instead of  *)
(* propagating the error; it never modifies the store.                     *)
(***************************************************************************)
C14_IsProcessedIffLinked ==
  /\ [][\A r \in Runs, id \in SourceIds :
          IsPostProcessed(r, id)
          => /\ UNCHANGED storeVars
             /\ pc'[r] = "Answered"
             /\ error'[r] = None
             /\ result'[r] # None
             /\ result'[r][1].redditPostId = id
             /\ result'[r][1].processed
                  <=> /\ calls'[r][1].res # "DB_SELECT_ERROR"
                      /\ \E row \in selected_posts :
                           row.reddit_post_id = id /\ row.audio_file_id # NULL_ID]_vars
  /\ [](\A r \in Runs :
          pc[r] = "Answered"
          => /\ error[r] = None
             /\ Len(calls[r]) = 1
             /\ result[r][1].processed <=> calls[r][1].res = "linked")

\* the lookup failed while the record asked about was linked
C14_Witness ==
  \E r \in Runs :
    /\ pc[r] = "Answered"
    /\ calls[r][1].res = "DB_SELECT_ERROR"
    /\ ~result[r][1].processed
    /\ \E row \in selected_posts :
         row.reddit_post_id = result[r][1].redditPostId /\ row.audio_file_id # NULL_ID

(***************************************************************************)
(* C15: provided every call a run awaits is eventually answered, every run *)
(* that has started eventually reaches a terminal state, Complete or       *)
(* Failed with its code, and stays in that one state; generate ends after  *)
(* at most MaxAttempts attempts on each provider of the list.              *)
(***************************************************************************)
C15_EveryRunTerminates ==
  /\ \A r \in Runs : (pc[r] # "idle") ~> Done(r)
  /\ [](\A r \in Runs :
          /\ pc[r] = "Complete" => (result[r] # None /\ error[r] = None)
          /\ pc[r] = "Failed" => (error[r] # None /\ result[r] = None)
          /\ ~Done(r) => (result[r] = None /\ error[r] = None))
  /\ [][\A r \in Runs : Done(r) => pc'[r] = pc[r]]_vars
  /\ [](\A oracle \in Oracles :
          LET res == generateAudio(oracle)
          IN  /\ Len(res.tried) =< Len(providers)
              /\ \A i \in 1..Len(res.tried) : res.tried[i].probes =< MaxAttempts
              /\ res.ok \/ res.code = "ALL_PROVIDERS_FAILED")

\* both runs have ended, one Complete and one Failed after its generate call
\* gave up on every provider
C15_Witness ==
  \E r1, r2 \in Runs :
    /\ pc[r1] = "Complete"
    /\ pc[r2] = "Failed" /\ Code(r2) = "TTS_FAILED"

(***************************************************************************)
(* Reading a generateAudio call                                            *)
(***************************************************************************)
Called == tts # None
TheOracle == tts[1].oracle
TheResult == tts[1].result
\* the providers contacted, in the order they were contacted, each with what
\* generateWithRetry did on it
Tried == TheResult.tried
\* a provider that behaves as script says hands audio to generateWithRetry:
\* some attempt meets "ok" and no earlier attempt meets an authentication error
Delivers(script) ==
  \E k \in 1..MaxAttempts :
    /\ script[k] = "ok"
    /\ \A j \in 1..(k - 1) : script[j] \notin {"401", "403"}
\* the events of kind `kind` among those generateWithRetry did on provider i
EventsOf(i, kind) ==
  {n \in 1..Len(Tried[i].events) : Tried[i].events[n].kind = kind}

(***************************************************************************)
(* C16: generate tries the providers strictly in list order: provider i+1  *)
(* is contacted only after provider i has been given up on, no provider    *)
(* after the first one that delivers is contacted, and the provider name   *)
(* returned is that of the provider whose generateSpeech call returned the *)
(* audio.                                                                  *)
(***************************************************************************)
C16_ProvidersInListOrder ==
  Called =>
    /\ Len(Tried) \in 1..Len(providers)
    /\ \A i \in 1..Len(providers) :
         \* provider i is contacted iff every provider before it failed
         (i =< Len(Tried)) <=> (\A j \in 1..(i - 1) : ~Delivers(TheOracle[j]))
    /\ \A i \in 1..Len(Tried) :
         /\ Tried[i].events # <<>>
         /\ Tried[i].ok <=> Delivers(TheOracle[i])
         /\ i < Len(Tried) => ~Tried[i].ok
         /\ \A n \in 1..Len(Tried[i].events) :
              Tried[i].events[n].status = "ok" => n = Len(Tried[i].events)
    /\ TheResult.ok
         <=> /\ Tried[Len(Tried)].ok
             /\ LET last == Tried[Len(Tried)].events[Len(Tried[Len(Tried)].events)]
                IN  last.kind = "synth" /\ last.status = "ok"
    /\ TheResult.ok
         => /\ TheResult.provider = providers[Len(Tried)]
            /\ TheResult.voice = voiceOf(providers[Len(Tried)])
    /\ ~TheResult.ok => (Len(Tried) = Len(providers) /\ TheResult.provider = "")

\* the first provider was given up on and the second delivered
C16_Witness ==
  /\ Called
  /\ TheResult.ok
  /\ Len(Tried) = 2
  /\ ~Tried[1].ok /\ Tried[1].synth = MaxAttempts
  /\ TheResult.provider = "inworld"

(***************************************************************************)
(* C17: if a provider's isAvailable() returns false, generate skips to the *)
(* next provider immediately: nothing more is done on that provider in     *)
(* this call -- no generateSpeech call, no further probe, no backoff wait. *)
(***************************************************************************)
C17_UnavailableSkippedImmediately ==
  Called =>
    \A i \in 1..Len(Tried) :
      \A n \in 1..Len(Tried[i].events) :
        (Tried[i].events[n].kind = "probe" /\ Tried[i].events[n].status = "false")
        => /\ n = Len(Tried[i].events)
           /\ ~Tried[i].ok

(***************************************************************************)
(* C18: within one generate call generateSpeech is invoked at most 3       *)
(* (maxAttempts) times on any single provider, hence at most 3 times the   *)
(* number of configured providers in total, whatever the providers do.     *)
(***************************************************************************)
RECURSIVE SynthTotal(_)
SynthTotal(i) == IF i = 0 THEN 0 ELSE Cardinality(EventsOf(i, "synth")) + SynthTotal(i - 1)

C18_AtMostMaxAttemptsSynth ==
  Called =>
    /\ \A i \in 1..Len(Tried) :
         /\ Cardinality(EventsOf(i, "synth")) =< 3
         /\ Cardinality(EventsOf(i, "synth")) = Tried[i].synth
         /\ Cardinality(EventsOf(i, "probe")) =< 3
         /\ \A n \in EventsOf(i, "synth") : Tried[i].events[n].attempt \in 1..3
    /\ SynthTotal(Len(Tried)) =< 3 * Len(providers)

\* every provider failed each of its attempts
C18_Witness ==
  /\ Called
  /\ ~TheResult.ok
  /\ \A i \in 1..Len(providers) : Cardinality(EventsOf(i, "synth")) = 3
  /\ SynthTotal(Len(Tried)) = 3 * Len(providers)

(***************************************************************************)
(* C19: when a provider's generateSpeech fails with status 401 or 403,     *)
(* generate makes no further attempt and no backoff wait on that provider  *)
(* (exactly one generateSpeech call on it when the failure is that of its  *)
(* first attempt), and if another provider follows in the list generate    *)
(* falls through to it.                                                    *)
(***************************************************************************)
IsAuthFailure(e) == e.kind = "synth" /\ e.status \in {"401", "403"}

C20_LastAuthFailurePropagated ==
  ( /\ Called
    /\ Len(Tried) = Len(providers)
    /\ ~TheResult.ok
    /\ Tried[Len(Tried)].error \in {"401", "403"} )
  =>   /\ TheResult.code = Tried[Len(Tried)].error
       /\ TheResult.code # TTSServiceError("ALL_PROVIDERS_FAILED").code

(***************************************************************************)
(* C21: a provider whose generateSpeech fails k times with a transient     *)
(* error (status 429 or 500) and then succeeds, k < 3, hands over its      *)
(* audio: generateAudio returns that provider's result after exactly k+1   *)
(* generateSpeech calls on it (two failures then success: 3 calls) and no  *)
(* later provider is contacted.                                            *)
(***************************************************************************)
TransientThenOk(script, k) ==
  /\ \A j \in 1..k : script[j] \in {"429", "500"}
  /\ script[k + 1] = "ok"

C21_TransientThenSuccess ==
  Called =>
    \A i \in 1..Len(Tried) :
      \A k \in 0..2 :
        TransientThenOk(TheOracle[i], k)
        => /\ Tried[i].ok
           /\ Cardinality(EventsOf(i, "synth")) = k + 1
           /\ Tried[i].events[Len(Tried[i].events)] = Synth(k + 1, "ok")
           /\ Len(Tried) = i
           /\ TheResult.ok
           /\ TheResult.provider = providers[i]

\* the first provider failed twice, succeeded at its third attempt
C21_Witness ==
  /\ Called
  /\ TransientThenOk(TheOracle[1], 2)
  /\ Cardinality(EventsOf(1, "synth")) = 3
  /\ TheResult.ok /\ TheResult.provider = providers[1]
  /\ Len(Tried) = 1

(***************************************************************************)
(* C22: generateAudio fails with ALL_PROVIDERS_FAILED if and only if every *)
(* configured provider was given up on, and the error it then carries is   *)
(* the last one observed: the failure of the final attempt made on the     *)
(* last provider of the list.                                              *)
(***************************************************************************)
\* what the last attempt made on provider i failed with, read from what was
\* done on it: the status of its last generateSpeech call, or the probe
\* that found it unavailable
FinalFailure(i) ==
  LET last == Tried[i].events[Len(Tried[i].events)]
  IN  IF last.kind = "synth" THEN last.status ELSE "unavailable"

C22_AllProvidersFailed ==
  Called =>
    /\ (TheResult.code = "ALL_PROVIDERS_FAILED") <=> ~TheResult.ok
    /\ ~TheResult.ok <=> (\A i \in 1..Len(providers) : ~Delivers(TheOracle[i]))
    /\ ~TheResult.ok
         => /\ Len(Tried) = Len(providers)
            /\ \A i \in 1..Len(Tried) : ~Tried[i].ok
            /\ Tried[Len(providers)].events[Len(Tried[Len(providers)].events)].kind # "wait"
            /\ TheResult.lastError = FinalFailure(Len(providers))

\* both providers were given up on, for different reasons
C22_Witness ==
  /\ Called
  /\ ~TheResult.ok
  /\ Tried[1].error = "500"
  /\ Tried[2].error = "429"
  /\ TheResult.lastError = "429"

(***************************************************************************)
(* Reading a getProvidersStatus call                                       *)
(***************************************************************************)
Built == service[1].built
\* the callback of provider i ended in its catch: one of its probes threw
ProbeFailed(i) ==
  \/ (probe[i].pc # "isAvailable" /\ probe[i].isAvailable = None)
  \/ (probe[i].pc = "settled" /\ probe[i].isAvailable # None
        /\ probe[i].getQuotaRemaining = None)

(***************************************************************************)
(* C23: getProvidersStatus returns exactly one status per configured       *)
(* provider, in the order of the provider list, whatever order the         *)
(* concurrent probes complete in; a provider one of whose probes fails is  *)
(* reported available = false, quota = -1, the call is not aborted by it,  *)
(* and every other provider is reported as its own probes answered.        *)
(***************************************************************************)
C23_StatusPerProviderInOrder ==
  /\ status # None
       => /\ Len(status[1]) = Len(Built.providers)
          /\ \A i \in 1..Len(Built.providers) :
               /\ status[1][i].name = Built.providers[i]
               /\ ProbeFailed(i)
                    => (~status[1][i].available /\ status[1][i].quota = -1)
               /\ ~ProbeFailed(i)
                    => /\ status[1][i].available = probe[i].isAvailable[1]
                       /\ status[1][i].quota = probe[i].getQuotaRemaining[1]
  \* the call is answered once every probe has been: nothing aborts it
  /\ (probe # <<>> /\ status = None /\ \A i \in DOMAIN probe : probe[i].pc = "settled")
       => ENABLED ResolveStatus

\* the second provider settled first, its quota probe having failed, and the
\* first provider is reported as it answered
C23_Witness ==
  /\ status # None
  /\ settled = <<2, 1>>
  /\ ProbeFailed(2) /\ probe[2].isAvailable = Some(TRUE)
  /\ status[1] = <<ProviderStatus("elevenlabs", TRUE, 5000),
                   ProviderStatus("inworld", FALSE, -1)>>

(***************************************************************************)
(* C24: construction leaves out every provider that fails to initialize,   *)
(* keeps the others in priority order (the primary before the fallback),   *)
(* and fails with NO_PROVIDERS if and only if no provider is left.         *)
(***************************************************************************)
C24_ConstructionOmitsFailed ==
  service # None =>
    /\ \A n \in 1..Len(Built.providers) :
         Built.providers[n] \in {"elevenlabs", "inworld"}
    /\ ("elevenlabs" \in {Built.providers[n] : n \in 1..Len(Built.providers)})
         <=> service[1].elevenLabs
    /\ ("inworld" \in {Built.providers[n] : n \in 1..Len(Built.providers)})
         <=> service[1].inworld
    /\ Len(Built.providers) =< 2
    /\ (service[1].elevenLabs /\ service[1].inworld)
         => Built.providers = <<"elevenlabs", "inworld">>
    /\ ~Built.ok <=> Built.providers = <<>>
    /\ ~Built.ok <=> Built.code = "NO_PROVIDERS"
    /\ ~Built.ok <=> (~service[1].elevenLabs /\ ~service[1].inworld)

\* the primary provider failed to initialize and the service was built with
\* the fallback alone, which then answered for its status
C24_Witness ==
  /\ service # None
  /\ ~service[1].elevenLabs /\ service[1].inworld
  /\ Built.ok /\ Built.providers = <<"inworld">>
  /\ status # None /\ Len(status[1]) = 1

(***************************************************************************)
(* Reading the calls of selectBestPost                                     *)
(***************************************************************************)
\* the usable items of a batch, as the claim words it: at least 10 words of
\* title and body, and a body that is not just a link
Usable(post) == post.text.words >= 10 /\ ~post.text.linkOnly
UsableAt(call) == {n \in 1..Len(call.posts) : Usable(call.posts[n])}
\* a >= b on scores: false when either is NaN
Geq(a, b) == a # NaN /\ b # NaN /\ a >= b
\* a score lies in [0, 1]
InUnit(x) == x # NaN /\ x # NegInfinity /\ x >= 0 /\ x =< 1000

(***************************************************************************)
(* C25: selectBestPost is deterministic: two calls on the same batch       *)
(* return the same chosen item with identical engagement, text-length,     *)
(* quality and total score values.                                         *)
(***************************************************************************)
C25_SelectBestDeterministic ==
  (Len(selections) = 2 /\ selections[1].posts = selections[2].posts)
    => selections[1].returned = selections[2].returned

(***************************************************************************)
(* C26: selectBestPost returns null if and only if no item of the batch    *)
(* has usable text (fewer than 10 words of title and body, or a link-only  *)
(* body); unusable items are left out before scoring, so the item returned *)
(* always has usable text, even when an unusable item would have scored    *)
(* higher.                                                                 *)
(***************************************************************************)
C26_NoneIffNoUsableItem ==
  \A c \in 1..Len(selections) :
    LET call == selections[c]
    IN  /\ (call.returned = None) <=> (UsableAt(call) = {})
        /\ call.returned # None
             => /\ Usable(call.returned[1].post)
                /\ \E n \in UsableAt(call) : call.posts[n] = call.returned[1].post

\* a link-only post that would have scored higher is in the batch, and the
\* usable post is returned
C26_Witness ==
  /\ selections # <<>>
  /\ selections[1].posts = <<PostC, PostB>>
  /\ selections[1].returned # None
  /\ selections[1].returned[1].post = PostB
  /\ scorePost(PostC, selections[1].now).totalScore
       > selections[1].returned[1].totalScore

(***************************************************************************)
(* C27: when selectBestPost returns an item, its totalScore is greater     *)
(* than or equal to the totalScore of every other usable item of the       *)
(* batch, and among several usable items with the maximal totalScore the   *)
(* one that comes first in the batch is returned.                          *)
(***************************************************************************)
C27_ReturnsFirstMaximal ==
  \A c \in 1..Len(selections) :
    LET call == selections[c]
        total(n) == scorePost(call.posts[n], call.now).totalScore
    IN  call.returned # None
          => /\ \A n \in UsableAt(call) :
                  (call.posts[n] # call.returned[1].post /\ total(n) # NaN)
                    => Geq(call.returned[1].totalScore, total(n))
             /\ \E n \in UsableAt(call) :
                  /\ call.posts[n] = call.returned[1].post
                  /\ \A m \in UsableAt(call) :
                       (m < n /\ call.posts[m] # call.posts[n])
                         => total(m) # call.returned[1].totalScore

(***************************************************************************)
(* C28: for every scored item, engagementScore, textLengthScore,           *)
(* contentQualityScore and totalScore each lie in [0, 1], whatever the     *)
(* engagement signals (zero or negative vote counts included) and the age. *)
(***************************************************************************)
C28_ScoresInUnitInterval ==
  \A c \in 1..Len(selections) :
    LET call == selections[c]
    IN  \A n \in UsableAt(call) :
          LET scored == scorePost(call.posts[n], call.now)
          IN  /\ InUnit(scored.engagementScore)
              /\ InUnit(calculateTextLengthScore(scored.textLength))
              /\ InUnit(scored.contentQuality)
              /\ InUnit(scored.totalScore)

(***************************************************************************)
(* C29: after attempt n < 3 on a provider has failed in the standard way   *)
(* (not an authentication failure, not a 429), generateAudio waits exactly *)
(* min(1000 * 2^(n-1), 5000) ms before attempt n+1 on the same provider:   *)
(* 1000 ms after attempt 1, 2000 ms after attempt 2.  No wait follows the  *)
(* last attempt on a provider and no wait is longer than 5000 ms.          *)
(***************************************************************************)
\* the attempt ended in the standard failure: the probe found the provider
\* unavailable, or generateSpeech failed with a status other than 401, 403, 429
StandardFailure(e) ==
  \/ (e.kind = "probe" /\ e.status = "false")
  \/ (e.kind = "synth" /\ e.status \notin {"ok", "401", "403", "429"})

StandardDelay(n) == IF n = 1 THEN 1000 ELSE IF n = 2 THEN 2000 ELSE 4000

C29_BackoffBetweenAttempts ==
  Called =>
    \A i \in 1..Len(Tried) :
      LET events == Tried[i].events
      IN  /\ events[Len(events)].kind # "wait"
          /\ \A n \in 1..Len(events) :
               /\ events[n].kind = "wait" => events[n].delay =< 5000
               /\ (events[n].kind = "wait" /\ events[n].attempt = 3) => FALSE
               /\ (StandardFailure(events[n]) /\ events[n].attempt < 3)
                    => /\ Len(events) >= n + 2
                       /\ events[n + 1] = Wait(events[n].attempt,
                                               StandardDelay(events[n].attempt))
                       /\ events[n + 2].kind = "probe"
                       /\ events[n + 2].attempt = events[n].attempt + 1
               /\ (StandardFailure(events[n]) /\ events[n].attempt = 3)
                    => n = Len(events)

\* the first provider failed its three attempts in the standard way
C29_Witness ==
  /\ Called
  /\ TheOracle[1] = <<"500", "unavailable", "500">>
  /\ Tried[1].waits = <<1000, 2000>>
  /\ Tried[1].events[Len(Tried[1].events)] = Synth(3, "500")

(***************************************************************************)
(* C30: a generateSpeech failure with status 429 counts as one of the      *)
(* provider's 3 attempts and, before the next attempt, one extra backoff   *)
(* cycle is consumed under the same formula: the wait after a 429 at       *)
(* attempt n is the delay of attempt n+1 (2000 ms after attempt 1, 4000 ms *)
(* after attempt 2, never more than 5000 ms).  A provider that answers 429 *)
(* to every call is given up on after exactly 3 generateSpeech calls.      *)
(***************************************************************************)
C30_RateLimitBackoff ==
  Called =>
    \A i \in 1..Len(Tried) :
      LET events == Tried[i].events
      IN  /\ \A n \in 1..Len(events) :
               (events[n].kind = "synth" /\ events[n].status = "429")
                 => IF events[n].attempt < 3
                      THEN /\ Len(events) >= n + 2
                           /\ events[n + 1] = Wait(events[n].attempt,
                                                   StandardDelay(events[n].attempt + 1))
                           /\ events[n + 1].delay =< 5000
                           /\ events[n + 2].kind = "probe"
                           /\ events[n + 2].attempt = events[n].attempt + 1
                      ELSE n = Len(events)
          /\ TheOracle[i] = <<"429", "429", "429">>
               => /\ ~Tried[i].ok
                  /\ Tried[i].error = "429"
                  /\ Cardinality(EventsOf(i, "synth")) = 3
                  /\ Tried[i].waits = <<2000, 4000>>

\* the first provider answered 429 to each of its three calls and the
\* second provider was tried next
C30_Witness ==
  /\ Called
  /\ TheOracle[1] = <<"429", "429", "429">>
  /\ Tried[1].waits = <<2000, 4000>>
  /\ Cardinality(EventsOf(1, "synth")) = 3
  /\ Len(Tried) = 2


(***************************************************************************)
(* The text length score.                                                  *)
(***************************************************************************)
\* C31: the text length score of every word count w is the piecewise
\* function: 0 for w = 0; 0.3 * w / 50 below 50; linear from 0.3 to 1.0 on
\* 50..100; 1.0 on 100..500; linear from 1.0 to 0.5 on 500..800 (here to
\* within one thousandth, the unit of the scores); 0.3 above 800. At 50, 100
\* and 500 the two adjacent branches give the same value: 0.3, 1.0 and 1.0.
C31_TextLengthPiecewise ==
  /\ \A n \in 1..Len(lengthScore) :
       LET w == lengthScore[n].wordCount
           s == lengthScore[n].score
       IN  /\ (w = 0) => (s = 0)
           /\ (0 < w /\ w < 50) => (50 * s = 300 * w)
           /\ (50 =< w /\ w =< 100) => (50 * (s - 300) = 700 * (w - 50))
           /\ (100 =< w /\ w =< 500) => (s = 1000)
           /\ (500 =< w /\ w =< 800) =>
                /\ 3000 - 5 * (w - 500) =< 3 * s
                /\ 3 * s < 3000 - 5 * (w - 500) + 3
           /\ (w > 800) => (s = 300)
  /\ tooShortScore(50) = 300
  /\ risingScore(50) = 300
  /\ risingScore(100) = 1000
  /\ calculateTextLengthScore(100) = 1000
  /\ calculateTextLengthScore(500) = 1000
  /\ fallingScore(500) = 1000

\* a word count in the falling range has been scored
C31_Witness ==
  lengthScore = Some([wordCount |-> 650, score |-> 750])


(***************************************************************************)
(* C32: the orchestrator mutates a selected post only by attaching an      *)
(* audio reference and never modifies an audio file record: a row of       *)
(* selected_posts whose audio_file_id is not null is left exactly as it is *)
(* by every later step of every run, a row without one changes in its      *)
(* audio_file_id only, no row is deleted, and the rows of audio_files stay *)
(* as they were created.                                                   *)
(***************************************************************************)
C32_AudioReferenceWrittenOnce ==
  [][ /\ \A row \in selected_posts :
           IF row.audio_file_id # NULL_ID
             THEN row \in selected_posts'
             ELSE \E audioFileId \in {NULL_ID} \cup {a.id : a \in audio_files'} :
                    [row EXCEPT !.audio_file_id = audioFileId] \in selected_posts'
      /\ audio_files \subseteq audio_files' ]_vars


(***************************************************************************)
(* C34: every generateSpeech call made by generate is immediately preceded *)
(* by an isAvailable probe of the same provider, in the same attempt, that *)
(* returned true; generateSpeech is not called in an attempt whose probe   *)
(* returned false.                                                         *)
(***************************************************************************)
C34_SynthOnlyAfterTrueProbe ==
  Called =>
    \A i \in 1..Len(Tried) :
      LET events == Tried[i].events
      IN  /\ \A n \in EventsOf(i, "synth") :
               /\ n > 1
               /\ events[n - 1] = Probe(events[n].attempt, TRUE)
          /\ \A n \in EventsOf(i, "probe") :
               events[n].status = "false"
                 => \A k \in EventsOf(i, "synth") : events[k].attempt # events[n].attempt

\* a provider was probed unavailable in one attempt, without a generateSpeech
\* call, and available in a later one, with a generateSpeech call
C34_Witness ==
  /\ Called
  /\ \E i \in 1..Len(Tried) :
       LET events == Tried[i].events
       IN  /\ Len(events) >= 4
           /\ events[1] = Probe(1, FALSE)
           /\ events[2].kind = "wait"
           /\ events[3] = Probe(2, TRUE)
           /\ events[4].kind = "synth" /\ events[4].attempt = 2


(***************************************************************************)
(* C35: when the insert reports a uniqueness violation and the lookup by   *)
(* reddit_post_id that follows fails with a store error, the run ends in   *)
(* Failed with UNEXPECTED_ERROR (neither POST_SAVE_FAILED nor              *)
(* POST_ALREADY_PROCESSED) and the lookup's error as cause; the lookup is   *)
(* the run's last call: no synthesis, no upload and no store write follow. *)
(***************************************************************************)
C35_LookupErrorIsUnexpected ==
  \A r \in Runs :
    ( /\ Outcome(r, "saveSelectedPost") = "DUPLICATE_POST"
      /\ Outcome(r, "getSelectedPostByRedditId") = "DB_SELECT_ERROR" )
    => /\ pc[r] = "Failed"
       /\ error[r] = Some(OrchestrationError("UNEXPECTED_ERROR", "DB_SELECT_ERROR"))
       /\ Code(r) \notin {"POST_SAVE_FAILED", "POST_ALREADY_PROCESSED"}
       /\ Ops(r) = LookupPath
       /\ ~Invoked(r, "generateAudio") /\ ~Invoked(r, "uploadAudioFile")
       /\ ~Invoked(r, "saveAudioFile") /\ ~Invoked(r, "linkAudioToPost")
       /\ savedPost[r] = None /\ result[r] = None
       /\ WroteNothing(r)

\* a run's insert collided with the record of another run and its lookup failed
C35_Witness ==
  \E r \in Runs :
    /\ Outcome(r, "saveSelectedPost") = "DUPLICATE_POST"
    /\ Outcome(r, "getSelectedPostByRedditId") = "DB_SELECT_ERROR"
    /\ pc[r] = "Failed"
    /\ \E p \in selected_posts : p.reddit_post_id = Source(r)


(***************************************************************************)
(* C36: at the step with which a run's link succeeds and the run reaches   *)
(* Complete, audio_files contains the audio file record the run returns    *)
(* and the selected post of the chosen source id has that record's id as   *)
(* its audio_file_id; from then on, with only the orchestrator acting on   *)
(* the store, that selected post stays linked and isPostProcessed of the   *)
(* source id answers true whenever its lookup is answered.                 *)
(***************************************************************************)
C36_CompleteMeansLinked ==
  /\ [][\A r \in Runs :
          (pc[r] = "linkAudioToPost" /\ pc'[r] = "Complete")
          => /\ result'[r] # None
             /\ result'[r][1].audioFile \in audio_files'
             /\ \E p \in selected_posts' :
                  /\ p.reddit_post_id = Source(r)
                  /\ p.audio_file_id = result'[r][1].audioFile.id]_vars
  /\ [](\A r \in Runs :
          pc[r] = "Complete"
          => /\ result[r][1].audioFile \in audio_files
             /\ isPostProcessed(Source(r), TRUE))
  /\ [][\A r, q \in Runs, id \in SourceIds :
          ( /\ pc[q] = "Complete" /\ Source(q) = id
            /\ IsPostProcessed(r, id)
            /\ calls'[r][1].res # "DB_SELECT_ERROR" )
          => result'[r][1].processed]_vars

\* a run is complete, its selected post carries its audio file record, and a
\* later isPostProcessed of its source id has answered true
C36_Witness ==
  \E r, q \in Runs :
    /\ pc[q] = "Complete"
    /\ \E p \in selected_posts :
         p.reddit_post_id = Source(q) /\ p.audio_file_id = result[q][1].audioFile.id
    /\ pc[r] = "Answered"
    /\ result[r][1].redditPostId = Source(q)
    /\ result[r][1].processed


(***************************************************************************)
(* C33: generateAudio leaves the state of the service as the constructor   *)
(* left it (the provider list and its order are never modified), so every  *)
(* generateAudio call starts from the first provider and goes through the  *)
(* list in its order, whichever providers failed or delivered in earlier   *)
(* or concurrent calls.                                                    *)
(***************************************************************************)
Constructed == initializeProviders(service[1].elevenLabs, service[1].inworld)

C33_GenerateLeavesServiceUnchanged ==
  /\ [][service # None => service' = service]_vars
  /\ [](service # None =>
          /\ service[1].built = Constructed
          /\ service[1].currentProviderIndex = 0
          /\ \A c \in Calls :
               generating[c] # None
               => LET call == generating[c][1]
                      names == [n \in 1..Len(call.tried) |-> call.tried[n].name]
                  IN  /\ names = SubSeq(Constructed.providers, 1, Len(names))
                      /\ call.pc = "generateWithRetry"
                           => /\ call.i = Len(names) + 1
                              /\ call.provider = Constructed.providers[call.i]
                      /\ call.pc = "returned"
                           => call.result[1].provider = Constructed.providers[Len(names)]
                      /\ call.pc = "threw" => Len(names) = Len(Constructed.providers))

\* a call was delivered by the second provider after the first one failed,
\* and a call made after it went to the first provider again
C33_Witness ==
  \E c, d \in Calls :
    /\ generating[c] # None /\ generating[d] # None
    /\ generating[c][1].pc = "returned"
    /\ generating[c][1].result[1].provider = "inworld"
    /\ ~generating[c][1].tried[1].ok
    /\ c \in generating[d][1].after
    /\ generating[d][1].tried # <<>>
    /\ generating[d][1].tried[1].name = "elevenlabs"


(***************************************************************************)
(* C38: getAccessToken returns the cached token, without a network         *)
(* request, whenever a token is cached whose expiry is more than 5 minutes *)
(* after the time of the call; otherwise it requests a new token, which it *)
(* caches and returns when the request succeeds; a token request that      *)
(* fails leaves the cache as it was.                                       *)
(***************************************************************************)
C38_CachedTokenOrOneRequest ==
  [][\A c \in Callers :
       /\ ( /\ client[c].pc = "idle"
            /\ client'[c].pc # "idle"
            /\ ~(client'[c].pc = "threw" /\ client'[c].status = 429) )
          => IF cachedToken # None /\ cachedToken[1].expiresAt - clock > 5 * 60 * 1000
               THEN /\ client'[c].token = Some(cachedToken[1].accessToken)
                    /\ ~client'[c].fetched
                    /\ client'[c].pc \in {"returned", "headers"}
                    /\ cachedToken' = cachedToken
               ELSE /\ client'[c].fetched
                    /\ client'[c].pc = "getAccessToken"
                    /\ client'[c].token = None
                    /\ cachedToken' = cachedToken
       /\ (client[c].pc = "getAccessToken" /\ client'[c].pc # "getAccessToken")
          => IF client'[c].pc = "threw"
               THEN /\ cachedToken' = cachedToken
                    /\ client'[c].token = None
                    /\ client'[c].error = "RedditAuthError"
               ELSE /\ cachedToken' # None
                    /\ client'[c].token = Some(cachedToken'[1].accessToken)
                    /\ cachedToken'[1].accessToken = c
                    /\ cachedToken'[1].expiresAt > clock
       /\ cachedToken' # cachedToken
          => \E d \in Callers : /\ client[d].pc = "getAccessToken"
                                /\ client'[d].pc \in {"returned", "headers"}
    ]_vars

\* one call returned the cached token without a request, and the token
\* request of another call failed and left that token in the cache
C38_Witness ==
  \E c, d \in Callers :
    /\ client[c].entry = "getAccessToken" /\ client[c].pc = "returned"
    /\ ~client[c].fetched
    /\ cachedToken # None
    /\ client[c].token = Some(cachedToken[1].accessToken)
    /\ client[d].entry = "getAccessToken" /\ client[d].pc = "threw"
    /\ client[d].fetched


(***************************************************************************)
(* C37: the client never sends more than 60 requests to the API within any *)
(* 60-second window, under every interleaving of concurrent makeRequest    *)
(* calls; every request it sends, one that fails included, is counted by   *)
(* the rate limiter; a call made while 60 requests are counted in the      *)
(* window fails with status 429 without sending a request.                 *)
(***************************************************************************)
SentInWindowFrom(start) ==
  {m \in DOMAIN issued : issued[m] >= start /\ issued[m] - start < 60 * 1000}

C37_AtMostSixtyRequestsPerWindow ==
  /\ [](\A n \in DOMAIN issued : Cardinality(SentInWindowFrom(issued[n])) =< 60)
  /\ [][\A c \in Callers :
          /\ (client[c].pc = "fetch" /\ client'[c].pc # "fetch")
             => requests' = Append(requests, clock)
          /\ ( /\ client[c].pc = "idle" /\ client'[c].entry = "makeRequest"
               /\ Len(filter(requests, clock)) >= 60 )
             => /\ client'[c].pc = "threw"
                /\ client'[c].status = 429
                /\ ~client'[c].sent /\ ~client'[c].fetched
                /\ issued' = issued]_vars

=============================================================================
